---- MODULE Spec2Model ----
(***************************************************************************)
(* The YouTube push-notification module of galaxyofdreams                  *)
(* (src/galaxyofdreams/modules/youtube.rs): the webhook handlers, the      *)
(* bounded event channel, and the Announcer loop that keeps the pending /  *)
(* subscribed ledgers and the announcement history.                        *)
(*                                                                         *)
(* Strings the code inspects (topic URLs, lease_seconds, text templates,   *)
(* video ids) are sequences of one-character strings; strings it only      *)
(* compares or copies are TLA+ strings.  Instants and durations are whole  *)
(* seconds.                                                                *)
(***************************************************************************)
EXTENDS Integers, Sequences, FiniteSets, Bags, TLC

VARIABLES
    now,          \* the clock (seconds since the module was constructed)
    config,       \* Arc<Mutex<YoutubeConfig>>
    queue,        \* the channel's message queue
    parked,       \* the channel's queue of parked sender tasks
    open,         \* FALSE once the Receiver has been dropped
    senders,      \* TRUE while Youtube lives, with its Sender and those of its routes
    pc,           \* Announcer::run: "select", "subscribe" (awaiting the hub), "panicked",
                  \* "exited"
    history,      \* run: Buffer of recent announcements
    subscribed,   \* run: channel -> expiration instant
    pending,      \* run: channel -> validation deadline
    timer,        \* run: the fused sleep, [deadline, done]
    subscribing,  \* run: the flag of that name
    attempt,      \* run: the locals to_subscribe and now of the tick awaiting the hub
    inflight,     \* hub subscribe requests sent and not yet answered
    announced,    \* messages handed to tokio::spawn by the Publication branch, in order
    seen,         \* video id -> Publications of it that reached the duplicate test
    logged,       \* the log lines of the last step of the loop
    failed,       \* the course of the last subscribe attempt while the configuration
                  \* stays as the attempt found it: its channel, and whether the
                  \* request is out ("trying"), has failed ("failed"), or has failed
                  \* and the next tick has come ("retried")
    swept,        \* the channels whose subscribed entry the last tick removed
    tried,        \* the channel of the subscribe attempt of the last tick, if it made one
    rejected,     \* the channels whose pending entry was inserted although the hub
                  \* answered the request with an error status
    hub,          \* what the hub did with the subscribe request that has just returned
    update,       \* the call of EventHandler::config that has just been made
    dropped,      \* the video ids of the Publications dropped because the module was
                  \* disabled
    outbox,       \* the tasks handed to tokio::spawn that have not finished, as a bag
    undelivered,  \* the video ids of the announcements whose task has failed
    called,       \* the instant of the last subscribe request, while it is less than
                  \* 30 seconds old and no UpdateSubscriptions event has been taken since
    inserts,      \* Buffer alone: the values inserted and what insert returned
    http,         \* the last webhook exchange: request and response
    nreq          \* webhook requests and configuration updates so far

vars ==
    <<now, config, queue, parked, open, senders, pc, history, subscribed, pending, timer,
      subscribing, attempt, inflight, announced, seen, logged, failed, swept, tried,
      rejected,
      hub, update, dropped, outbox, undelivered, called, inserts, http, nreq>>

loopVars ==
    <<pc, history, subscribed, pending, timer, subscribing, attempt, inflight,
      announced, seen, logged, failed, swept, tried, rejected, dropped, outbox,
      undelivered>>

----------------------------------------------------------------------------
(* Bounds of the model *)

\* The clock stops here.
MaxTime ==
    60

\* The clock advances in steps of this many seconds.
TimeStep ==
    10

\* Webhook requests plus configuration updates in one behaviour.
MaxReq ==
    3

\* The largest capacity of a Buffer checked alone.
MaxCapacity ==
    3

\* The configuration call and the notifications in one behaviour of the history's
\* specification: enough to publish more videos than the history holds.
MaxPosts ==
    13

\* Webhook requests plus configuration updates in one behaviour of the channel's
\* specification: enough to send more events than the channel's buffer holds.
MaxSends ==
    9

----------------------------------------------------------------------------
(* Program constants *)

\* mpsc::channel(8)
ChannelBuffer ==
    8

\* Buffer::new(10)
HistoryCapacity ==
    10

\* let timeout = Duration::from_secs(30)
TimeoutSecs ==
    30

\* Duration::from_secs(24 * 60 * 60)
DaySecs ==
    24 * 60 * 60

\* reqwest ClientBuilder::timeout(Duration::from_secs(10))
ClientTimeoutSecs ==
    10

\* lease_seconds.saturating_sub(600)
RenewMarginSecs ==
    600

\* const TOPIC_URL
TOPIC_URL ==
    << "h","t","t","p","s",":","/","/","w","w","w",".","y","o","u","t","u","b","e",
       ".","c","o","m","/","x","m","l","/","f","e","e","d","s","/","v","i","d","e",
       "o","s",".","x","m","l","?","c","h","a","n","n","e","l","_","i","d","=" >>

\* Option<T>: None is the empty sequence, Some(v) the sequence of v alone.
None ==
    <<>>

Some(v) ==
    <<v>>

IsSome(o) ==
    o # <<>>

Unwrap(o) ==
    o[1]

----------------------------------------------------------------------------
(* Strings *)

\* str::starts_with
StartsWith(s, prefix) ==
    /\ Len(s) >= Len(prefix)
    /\ SubSeq(s, 1, Len(prefix)) = prefix

\* str::get(n..) for n within the string
StrFrom(s, n) ==
    SubSeq(s, n + 1, Len(s))

RECURSIVE Replace(_, _, _)
\* str::replace: every non-overlapping match of pat, left to right
Replace(s, pat, by) ==
    IF Len(s) < Len(pat) \/ Len(pat) = 0
    THEN s
    ELSE IF SubSeq(s, 1, Len(pat)) = pat
         THEN by \o Replace(SubSeq(s, Len(pat) + 1, Len(s)), pat, by)
         ELSE <<Head(s)>> \o Replace(Tail(s), pat, by)

Digits ==
    {"0", "1", "2", "3", "4", "5", "6", "7", "8", "9"}

DigitValue(c) ==
    CASE c = "0" -> 0 [] c = "1" -> 1 [] c = "2" -> 2 [] c = "3" -> 3 [] c = "4" -> 4
      [] c = "5" -> 5 [] c = "6" -> 6 [] c = "7" -> 7 [] c = "8" -> 8 [] c = "9" -> 9

RECURSIVE DecimalValue(_)
DecimalValue(ds) ==
    IF ds = <<>> THEN 0
    ELSE 10 * DecimalValue(SubSeq(ds, 1, Len(ds) - 1)) + DigitValue(ds[Len(ds)])

RECURSIVE StripZeros(_)
StripZeros(ds) ==
    IF ds # <<>> /\ Head(ds) = "0" THEN StripZeros(Tail(ds)) ELSE ds

\* u64::MAX, 18446744073709551615
U64MaxDigits ==
    << "1","8","4","4","6","7","4","4","0","7","3","7","0","9","5","5","1","6","1","5" >>

RECURSIVE DigitsLeq(_, _)
\* a <= b for digit strings of the same length
DigitsLeq(a, b) ==
    \/ a = <<>>
    \/ DigitValue(Head(a)) < DigitValue(Head(b))
    \/ Head(a) = Head(b) /\ DigitsLeq(Tail(a), Tail(b))

\* A u64 is [huge, val]: val itself, or (huge) a value of 20 decimal digits, at least
\* 10^19, which is more seconds than an Instant can hold.
U64(n) ==
    [huge |-> FALSE, val |-> n]

Huge ==
    [huge |-> TRUE, val |-> 0]

\* <u64 as FromStr>::from_str, as an Option: an optional '+', then one or more
\* digits, no overflow.  Values below 10^9 are exact; 20-digit values are Huge; the
\* 10- to 19-digit values between are kept at their lower bound 10^9, beyond any
\* instant of the model.
ParseU64(s) ==
    LET body == IF s # <<>> /\ Head(s) = "+" THEN Tail(s) ELSE s
        sig == StripZeros(body)
    IN  IF body = <<>> \/ \E i \in 1..Len(body) : body[i] \notin Digits
        THEN None
        ELSE IF Len(sig) <= 9 THEN Some(U64(DecimalValue(sig)))
        ELSE IF Len(sig) < 20 THEN Some(U64(10 ^ 9))
        ELSE IF Len(sig) = 20 /\ DigitsLeq(sig, U64MaxDigits) THEN Some(Huge)
        ELSE None

\* u64::saturating_sub
SaturatingSub(a, b) ==
    IF a.huge THEN Huge
    ELSE IF a.val >= b THEN U64(a.val - b) ELSE U64(0)

----------------------------------------------------------------------------
(* Buffer<T>: the fixed size FIFO buffer *)

\* Buffer::new
BufferNew(capacity) ==
    [capacity |-> capacity, inner |-> <<>>]

\* An insert that never evicts
BufferInsertGrowing(b, value) ==
    [b EXCEPT !.inner = b.inner \o <<value>>]

\* Buffer::insert: the buffer afterwards
BufferInsert(b, value) ==
    [b EXCEPT !.inner =
        (IF Len(b.inner) = b.capacity THEN Tail(b.inner) ELSE b.inner) \o <<value>>]

\* Buffer::insert: the Option it returns
BufferInsertPop(b) ==
    IF Len(b.inner) = b.capacity THEN Some(Head(b.inner)) ELSE None

\* Buffer::contains
BufferContains(b, x) ==
    \E i \in 1..Len(b.inner) : b.inner[i] = x

----------------------------------------------------------------------------
(* The shared configuration *)

\* A Subscription of the subscriptions map, with its key
Sub(key, channel_id, text) ==
    [key |-> key, channel_id |-> channel_id, text |-> text]

\* impl Default for YoutubeConfig.  subscriptions, a HashMap, is the sequence of its
\* entries in the iteration order of this particular map.
DefaultConfig ==
    [enabled |-> FALSE, subscriptions |-> <<>>, log_channel |-> None]

\* HashMap::keys, in iteration order
Keys(subs) ==
    [i \in 1..Len(subs) |-> subs[i].key]

\* HashMap::contains_key
ContainsKey(subs, k) ==
    \E i \in 1..Len(subs) : subs[i].key = k

\* HashMap::get, as an Option
Get(subs, k) ==
    IF ContainsKey(subs, k)
    THEN Some(subs[CHOOSE i \in 1..Len(subs) : subs[i].key = k])
    ELSE None

----------------------------------------------------------------------------
(* The pending and subscribed maps: functions from the channels present *)

EmptyMap ==
    <<>>

\* HashMap::insert
MapInsert(m, k, v) ==
    [x \in DOMAIN m \cup {k} |-> IF x = k THEN v ELSE m[x]]

\* A removal that leaves the map as it is
MapRemoveNothing(m, k) ==
    m

\* HashMap::remove
MapRemove(m, k) ==
    [x \in DOMAIN m \ {k} |-> m[x]]

\* A retain that keeps what expires at this very instant
RetainLaterOrNow(m, t) ==
    [x \in {k \in DOMAIN m : m[k] >= t} |-> m[x]]

\* A sweep that also drops the entries of the channels the configuration no longer has
RetainLaterDesired(m, t) ==
    [k \in {k \in DOMAIN m : m[k] > t /\ \E i \in 1..Len(config.subscriptions) :
                                            config.subscriptions[i].key = k} |-> m[k]]

\* HashMap::retain(|_, instant| *instant > now)
RetainLater(m, t) ==
    [x \in {k \in DOMAIN m : m[k] > t} |-> m[x]]

\* A sweep that reports none of the keys it drops
ExpiredNone(m, t) ==
    {}

\* The keys retain drops
Expired(m, t) ==
    {k \in DOMAIN m : ~(m[k] > t)}

\* The latest of the values of two maps
MaxValue(a, b) ==
    LET vs == {a[k] : k \in DOMAIN a} \cup {b[k] : k \in DOMAIN b}
    IN  IF vs = {} THEN None ELSE Some(CHOOSE v \in vs : \A w \in vs : v >= w)

\* Iterator::min over the values of both maps, as an Option
MinValue(a, b) ==
    LET vs == {a[k] : k \in DOMAIN a} \cup {b[k] : k \in DOMAIN b}
    IN  IF vs = {} THEN None ELSE Some(CHOOSE v \in vs : \A w \in vs : v <= w)

\* A fused sleep that completes at deadline; done once it has completed
Sleep(deadline) ==
    [deadline |-> deadline, done |-> FALSE]

\* macro first!: sleep until the earliest instant of both maps, a day from t if none
First(a, b, t) ==
    LET m == MinValue(a, b)
    IN  Sleep(IF IsSome(m) THEN Unwrap(m) ELSE t + DaySecs)

----------------------------------------------------------------------------
(* The event channel, futures::channel::mpsc::channel(8) *)

\* enum Event
EvPublication(p) ==
    [type |-> "Publication", publication |-> p]

EvUpdateSubscriptions ==
    [type |-> "UpdateSubscriptions"]

EvSubscribed(yt_channel, lease_seconds) ==
    [type |-> "Subscribed", yt_channel |-> yt_channel, lease_seconds |-> lease_seconds]

EvSubscriptionDenied(yt_channel, reason) ==
    [type |-> "SubscriptionDenied", yt_channel |-> yt_channel, reason |-> reason]

\* The channel as one value
Chan ==
    [queue |-> queue, parked |-> parked, open |-> open]

\* A send that queues nothing
TrySendNothing(c, who, ev) ==
    c

\* Sender::try_send by `who`: "own" is Youtube::sender, "clone" a sender cloned for
\* this one send.  A parked sender is refused (Full); a send on a closed channel fails;
\* otherwise the message is queued, and the sender parks when the queue then holds more
\* than the buffer's size.
TrySend(c, who, ev) ==
    IF ~c.open \/ (who = "own" /\ \E i \in 1..Len(c.parked) : c.parked[i] = "own")
    THEN c
    ELSE [c EXCEPT !.queue = Append(c.queue, ev),
                   !.parked = IF Len(c.queue) + 1 > ChannelBuffer
                              THEN Append(c.parked, who) ELSE c.parked]

\* Receiver::next yielding a message: pop it and unpark the longest parked sender
Receive(c) ==
    [c EXCEPT !.queue = Tail(c.queue),
              !.parked = IF c.parked = <<>> THEN <<>> ELSE Tail(c.parked)]

\* Dropping the Receiver: the channel closes and what is queued is dropped
Close(c) ==
    [queue |-> <<>>, parked |-> <<>>, open |-> FALSE]

SetChan(c) ==
    /\ queue' = c.queue
    /\ parked' = c.parked
    /\ open' = c.open

----------------------------------------------------------------------------
(* The feed parser *)

BASE_NS ==
    "http://www.w3.org/2005/Atom"

YT_NS ==
    "http://www.youtube.com/xml/schemas/2015"

\* A minidom::Element: its name, namespace, child elements and text nodes, in order
Element(name, ns, children, texts) ==
    [name |-> name, ns |-> ns, children |-> children, texts |-> texts]

\* Element::get_child, as an Option: the first child of that name and namespace
GetChild(e, name, ns) ==
    LET hits == {i \in 1..Len(e.children) :
                    e.children[i].name = name /\ e.children[i].ns = ns}
    IN  IF hits = {} THEN None
        ELSE Some(e.children[CHOOSE i \in hits : \A j \in hits : i <= j])

Ok(v) ==
    [ok |-> TRUE, val |-> v]

Err(e) ==
    [ok |-> FALSE, err |-> e]

\* A lookup that takes an element without text for a missing one
entry_text_or_missing(entry, name, ns) ==
    LET c == GetChild(entry, name, ns)
    IN  IF ~IsSome(c) \/ Unwrap(c).texts = <<>> THEN Err(<<"MissingChild", name>>)
        ELSE Ok(Head(Unwrap(c).texts))

\* fn entry_text
entry_text(entry, name, ns) ==
    LET c == GetChild(entry, name, ns)
    IN  IF ~IsSome(c) THEN Err(<<"MissingChild", name>>)
        ELSE IF Unwrap(c).texts = <<>> THEN Err(<<"MissingChildInner", name>>)
        ELSE Ok(Head(Unwrap(c).texts))

\* impl FromStr for Publication.  The document is the Option of its root element:
\* None when the text is not well-formed XML.
from_str(doc) ==
    IF ~IsSome(doc) THEN Err(<<"InvalidXml">>)
    ELSE
    LET entry == GetChild(Unwrap(doc), "entry", BASE_NS)
    IN  IF ~IsSome(entry) THEN Err(<<"MissingChild", "entry">>)
        ELSE
        LET title == entry_text(Unwrap(entry), "title", BASE_NS)
            yt_id == entry_text(Unwrap(entry), "videoId", YT_NS)
            yt_channel == entry_text(Unwrap(entry), "channelId", YT_NS)
        IN  IF ~title.ok THEN title
            ELSE IF ~yt_id.ok THEN yt_id
            ELSE IF ~yt_channel.ok THEN yt_channel
            ELSE Ok([title |-> title.val, yt_id |-> yt_id.val,
                     yt_channel |-> yt_channel.val])

----------------------------------------------------------------------------
(* The webhook handlers.  Each yields the Option of its reply and the Option of  *)
(* the event it sends.                                                            *)

Reply(status, body) ==
    [status |-> status, body |-> body]

Handled(reply, send) ==
    [reply |-> reply, send |-> send]

\* A test that takes every channel for a subscribed one
KnownChannelAlways(cfg, yt_channel) ==
    TRUE

\* http_get: config.lock().ok()?.subscriptions.contains_key(&yt_channel)
KnownChannel(cfg, yt_channel) ==
    ContainsKey(cfg.subscriptions, yt_channel)

\* fn http_get.  A query is a record of Options, one per hub.* parameter.
http_get(cfg, query) ==
    IF ~IsSome(query.mode) \/ ~IsSome(query.topic)
    THEN Handled(None, None)
    ELSE
    LET mode == Unwrap(query.mode)
        topic == Unwrap(query.topic)
    IN  IF ~StartsWith(topic, TOPIC_URL)
        THEN Handled(None, None)
        ELSE
        LET yt_channel == StrFrom(topic, Len(TOPIC_URL))
        IN  IF ~KnownChannel(cfg, yt_channel)
            THEN Handled(Some(Reply(404, "")), None)
            ELSE IF mode = "denied"
            THEN Handled(Some(Reply(200, "")),
                         Some(EvSubscriptionDenied(yt_channel, query.reason)))
            ELSE IF mode = "subscribe"
            THEN IF ~IsSome(query.challenge) \/ ~IsSome(query.lease_seconds)
                 THEN Handled(None, None)
                 ELSE
                 LET lease_seconds == ParseU64(Unwrap(query.lease_seconds))
                 IN  IF ~IsSome(lease_seconds)
                     THEN Handled(None, None)
                     ELSE Handled(Some(Reply(200, Unwrap(query.challenge))),
                                  Some(EvSubscribed(yt_channel, Unwrap(lease_seconds))))
            ELSE Handled(None, None)

\* fn http_post.  A body is [utf8, doc]: whether the bytes are UTF-8, and the document.
http_post(body) ==
    IF ~body.utf8 THEN Handled(None, None)
    ELSE
    LET publication == from_str(body.doc)
    IN  IF ~publication.ok THEN Handled(None, None)
        ELSE Handled(Some(Reply(200, "")), Some(EvPublication(publication.val)))

\* A route that answers NOT_FOUND where the handler gives no reply
UnwrapOrNotFound(reply) ==
    IF IsSome(reply) THEN Unwrap(reply) ELSE Reply(404, "")

\* Youtube::routes: .unwrap_or(StatusCode::BAD_REQUEST)
UnwrapOrBadRequest(reply) ==
    IF IsSome(reply) THEN Unwrap(reply) ELSE Reply(400, "")

----------------------------------------------------------------------------
(* Inputs: the channels, videos, configurations and requests of the model *)

ChA ==
    <<"U", "C", "a">>

ChB ==
    <<"U", "C", "b">>

IdX ==
    <<"X", "Y", "Z">>

IdY ==
    <<"Q">>

PubIds ==
    {IdX, IdY}

\* One video id more than the history holds, to publish in turn
WindowIds ==
    {[i \in 1..n |-> "v"] : n \in 1..(HistoryCapacity + 1)}

\* "New video: %ID%"
TextNew ==
    <<"N", "e", "w", " ", "v", "i", "d", "e", "o", ":", " ", "%", "I", "D", "%">>

\* "%ID% is out (%ID%)"
TextOut ==
    <<"%", "I", "D", "%", " ", "i", "s", " ", "o", "u", "t", " ", "(", "%", "I", "D", "%", ")">>

SubA ==
    Sub(ChA, "123", TextNew)

SubB ==
    Sub(ChB, "456", TextOut)

\* The configurations an update may carry: maps of none, one and two subscriptions,
\* the two in either iteration order
Configs ==
    {[enabled |-> TRUE, subscriptions |-> <<SubA>>, log_channel |-> None],
     [enabled |-> TRUE, subscriptions |-> <<SubA, SubB>>, log_channel |-> Some("900")],
     [enabled |-> TRUE, subscriptions |-> <<SubB, SubA>>, log_channel |-> None],
     [enabled |-> FALSE, subscriptions |-> <<SubA, SubB>>, log_channel |-> None],
     [enabled |-> FALSE, subscriptions |-> <<>>, log_channel |-> Some("900")],
     [enabled |-> TRUE, subscriptions |-> <<>>, log_channel |-> None]}

\* The (name, value) pairs EventHandler::config may be called with: value is the
\* Option of the YoutubeConfig it deserializes to
ConfigCalls ==
    {[name |-> "youtube", value |-> Some(c)] : c \in Configs}
    \cup {[name |-> "youtube", value |-> None], [name |-> "joined", value |-> None]}

Query(mode, topic, challenge, lease_seconds, reason) ==
    [mode |-> mode, topic |-> topic, challenge |-> challenge,
     lease_seconds |-> lease_seconds, reason |-> reason]

TopicOf(yt_channel) ==
    TOPIC_URL \o yt_channel

\* A URL that differs from TOPIC_URL in its last character
OtherUrl ==
    SubSeq(TOPIC_URL, 1, Len(TOPIC_URL) - 1) \o <<"-">> \o ChA

LeaseStrings ==
    {<<"3", "0", "0">>, <<"6", "1", "0">>, <<"7", "0", "0">>, U64MaxDigits}

\* The queries of the loop's specification: the hub's verifications and denials,
\* and one query for each way of being malformed
Queries ==
    {Query(Some("subscribe"), Some(TopicOf(ChA)), Some("abc123"), Some(l), None) :
        l \in LeaseStrings}
    \cup {Query(Some("subscribe"), Some(TopicOf(ChB)), Some("xyz"), Some(<<"6", "1", "0">>), None),
          Query(Some("denied"), Some(TopicOf(ChA)), None, None, Some("quota")),
          Query(Some("denied"), Some(TopicOf(ChB)), None, None, None),
          Query(None, Some(TopicOf(ChA)), Some("abc123"), Some(<<"7", "0", "0">>), None),
          Query(Some("subscribe"), Some(OtherUrl), Some("abc123"), Some(<<"7", "0", "0">>), None),
          Query(Some("subscribe"), Some(TopicOf(ChA)), None, Some(<<"7", "0", "0">>), None),
          Query(Some("subscribe"), Some(TopicOf(ChA)), Some("abc123"), Some(<<"7", "d">>), None)}

\* The queries of the webhook's specification: every combination of the parameters
\* present or absent, well-formed or not
AllQueries ==
    {Query(m, t, c, l, r) :
        m \in {None, Some("subscribe"), Some("denied"), Some("unsubscribe")},
        t \in {None, Some(TopicOf(ChA)), Some(TopicOf(ChB)), Some(OtherUrl)},
        c \in {None, Some("abc123")},
        l \in {None, Some(<<"7", "0", "0">>), Some(<<"7", "d">>), Some(<<>>)},
        r \in {None, Some("quota")}}

Text(name, ns, text) ==
    Element(name, ns, <<>>, <<text>>)

\* A notification as the hub posts it
FeedOf(yt_channel, yt_id, title) ==
    Some(Element("feed", BASE_NS,
        << Text("title", BASE_NS, "YouTube video feed"),
           Element("entry", BASE_NS,
               << Text("videoId", YT_NS, yt_id),
                  Text("channelId", YT_NS, yt_channel),
                  Text("title", BASE_NS, title) >>, <<>>) >>, <<>>))

Body(utf8, doc) ==
    [utf8 |-> utf8, doc |-> doc]

\* The bodies of the loop's specification
Bodies ==
    {Body(TRUE, FeedOf(ChA, i, "Hello")) : i \in PubIds}
    \cup {Body(TRUE, FeedOf(ChB, IdX, "Hello")), Body(TRUE, None)}

\* The ways a child element of the entry may come: not at all, without a text node,
\* with its text, or with its text under a namespace that is not the expected one
Shapes ==
    {"absent", "empty", "text", "other_ns"}

\* The child elements of that name an entry of the given shape has
ChildOf(shape, name, ns, text) ==
    CASE shape = "absent" -> <<>>
      [] shape = "empty" -> <<Element(name, ns, <<>>, <<>>)>>
      [] shape = "text" -> <<Text(name, ns, text)>>
      [] shape = "other_ns" -> <<Text(name, "urn:other", text)>>

\* A feed whose entry has its three children in the given shapes
FeedOfShape(id, ch, title) ==
    Some(Element("feed", BASE_NS,
        << Text("title", BASE_NS, "YouTube video feed"),
           Element("entry", BASE_NS,
               ChildOf(id, "videoId", YT_NS, IdX) \o ChildOf(ch, "channelId", YT_NS, ChA)
                   \o ChildOf(title, "title", BASE_NS, "Hello"), <<>>) >>, <<>>))

\* The bodies of the webhook's specification: bytes that are not UTF-8, text that is
\* not XML, a feed without entry, and the feeds of every shape
AllBodies ==
    {Body(FALSE, None), Body(TRUE, None),
     Body(TRUE, Some(Element("feed", BASE_NS,
                        <<Text("title", BASE_NS, "YouTube video feed")>>, <<>>)))}
    \cup {Body(TRUE, FeedOfShape(id, ch, title)) : id \in Shapes, ch \in Shapes, title \in Shapes}

\* How a hub subscribe request ends: a response of any status is Ok(()), for send()
\* fails only when no response arrives (transport error, or the client's timeout)
HubOutcomes ==
    {"success_status", "error_status", "no_response"}

----------------------------------------------------------------------------
(* The state after Youtube::new *)

\* A first timer that is due at once
InitialTimerDue ==
    Sleep(0)

\* let mut timer = Box::pin(sleep(day).fuse()): the dummy timer at start
InitialTimer ==
    Sleep(0 + DaySecs)

InitButHistory ==
    /\ now = 0
    /\ config = DefaultConfig
    /\ queue = <<>>
    /\ parked = <<>>
    /\ open = TRUE
    /\ senders = TRUE
    /\ pc = "select"
    /\ subscribed = EmptyMap
    /\ pending = EmptyMap
    /\ timer = InitialTimer
    /\ subscribing = FALSE
    /\ attempt = None
    /\ inflight = 0
    /\ announced = <<>>
    /\ seen = [i \in PubIds \cup WindowIds |-> 0]
    /\ logged = {}
    /\ failed = None
    /\ swept = {}
    /\ tried = None
    /\ rejected = {}
    /\ hub = None
    /\ update = None
    /\ dropped = {}
    /\ outbox = EmptyBag
    /\ undelivered = {}
    /\ inserts = <<>>
    /\ called = None
    /\ http = None
    /\ nreq = 0

Init ==
    /\ InitButHistory
    /\ history = BufferNew(HistoryCapacity)

----------------------------------------------------------------------------
(* The webhook and the configuration: the producers of events *)

Exchange(method, request, reply) ==
    [method |-> method, request |-> request, status |-> reply.status,
     body |-> reply.body]

\* A guard held at every suspension point of the loop's subscribe call
LockedAcrossSubscribe(p) ==
    p = "subscribe"

\* The guard of the configuration's Mutex is alive while the loop is suspended at
\* position p: an await of that position lies inside a block that holds `inner`
Locked(p) ==
    LET guards == {<<266, 287>>, <<327, 339>>}
        awaits == CASE p = "select" -> 250..256
                    [] p = "subscribe" -> {345}
                    [] OTHER -> {}
    IN  \E g \in guards : \E l \in awaits : g[1] <= l /\ l <= g[2]

\* GET /yt
HttpGet(query) ==
    LET h == http_get(config, query)
    IN  /\ senders
        /\ ~Locked(pc)
        /\ nreq' = nreq + 1
        /\ http' = Some(Exchange("GET", query, UnwrapOrBadRequest(h.reply)))
        /\ hub' = None
        /\ update' = None
        /\ SetChan(IF IsSome(h.send) THEN TrySend(Chan, "clone", Unwrap(h.send)) ELSE Chan)
        /\ UNCHANGED <<now, config, senders, loopVars, inserts, called>>

\* POST /yt
HttpPost(body) ==
    LET h == http_post(body)
    IN  /\ senders
        /\ nreq' = nreq + 1
        /\ http' = Some(Exchange("POST", body, UnwrapOrBadRequest(h.reply)))
        /\ hub' = None
        /\ update' = None
        /\ SetChan(IF IsSome(h.send) THEN TrySend(Chan, "clone", Unwrap(h.send)) ELSE Chan)
        /\ UNCHANGED <<now, config, senders, loopVars, inserts, called>>

\* EventHandler::config for Youtube, with macro load_config!
ConfigUpdate(call) ==
    /\ senders
    /\ ~Locked(pc)
    /\ nreq' = nreq + 1
    /\ http' = None
    /\ hub' = None
    /\ update' = Some(call)
    /\ IF call.name # "youtube" \/ ~IsSome(call.value)
       THEN UNCHANGED <<config, queue, parked, open, failed>>
       ELSE /\ config' = Unwrap(call.value)
            /\ failed' = None
            /\ SetChan(IF config'.enabled
                       THEN TrySend(Chan, "own", EvUpdateSubscriptions) ELSE Chan)
    /\ UNCHANGED <<now, senders, pc, history, subscribed, pending, timer, subscribing,
                   attempt, inflight, announced, seen, logged, swept, tried, rejected,
                   dropped, outbox, undelivered, inserts, called>>

----------------------------------------------------------------------------
(* Announcer::run *)

\* A choice made among the channels that were free before the sweep
CandidateBeforeSweep(subs, sub, pen) ==
    LET free == {i \in 1..Len(subs) :
                    subs[i].key \notin DOMAIN subscribed /\ subs[i].key \notin DOMAIN pending}
    IN  IF free = {} THEN None
        ELSE Some(subs[CHOOSE i \in free : \A j \in free : i <= j].key)

\* A choice of the last free channel in iteration order
CandidateLast(subs, sub, pen) ==
    LET free == {i \in 1..Len(subs) :
                    subs[i].key \notin DOMAIN sub /\ subs[i].key \notin DOMAIN pen}
    IN  IF free = {} THEN None
        ELSE Some(subs[CHOOSE i \in free : \A j \in free : i >= j].key)

\* subscriptions.keys().filter(not subscribed and not pending).next(), as an Option
Candidate(subs, sub, pen) ==
    LET free == {i \in 1..Len(subs) :
                    subs[i].key \notin DOMAIN sub /\ subs[i].key \notin DOMAIN pen}
    IN  IF free = {} THEN None
        ELSE Some(subs[CHOOSE i \in free : \A j \in free : i <= j].key)

\* A line of the log.  notice is the Option of the channel Announcer::log spawns a
\* message to: None where the code does not call it, or no log_channel is set.
Line(level, what, yt_channel, detail, notice) ==
    [level |-> level, what |-> what, yt_channel |-> yt_channel, detail |-> detail,
     notice |-> notice]

\* Announcer::log: the channel the message goes to
Notice ==
    config.log_channel

\* A loop that takes the next item while the subscribe request is still out
AtSelectOrAwaiting ==
    pc \in {"select", "subscribe"}

\* The select! at the top of the loop is ready to take an item
AtSelect ==
    pc = "select"

\* A tick that takes the module for enabled whatever the configuration says
EnabledAtTickAlways ==
    TRUE

\* Event::UpdateSubscriptions: inner.enabled, read under the lock
EnabledAtTick ==
    config.enabled

\* Event::UpdateSubscriptions, up to the subscribe request; t is the timer as select!
\* left it
OnUpdateSubscriptions(t) ==
    LET sub1 == RetainLater(subscribed, now)
        pen1 == RetainLater(pending, now)
        timed_out == {Line("warn", "Validation timed out", k, None, Notice) :
                         k \in Expired(pending, now)}
        to_subscribe == Candidate(config.subscriptions, sub1, pen1)
    IN  /\ subscribed' = sub1
        /\ pending' = pen1
        /\ swept' = Expired(subscribed, now)
        /\ failed' = IF IsSome(failed) /\ Unwrap(failed).stage = "failed"
                     THEN Some([Unwrap(failed) EXCEPT !.stage = "retried"])
                     ELSE IF config.enabled /\ IsSome(to_subscribe)
                     THEN Some([yt_channel |-> Unwrap(to_subscribe), stage |-> "trying"])
                     ELSE None
        /\ tried' = IF EnabledAtTick /\ IsSome(to_subscribe)
                    THEN Some(Unwrap(to_subscribe))
                    ELSE None
        /\ UNCHANGED <<history, announced, seen, dropped>>
        /\ IF ~EnabledAtTick
           THEN /\ timer' = t
                /\ logged' = timed_out
                /\ UNCHANGED <<pc, subscribing, attempt, inflight>>
           ELSE IF IsSome(to_subscribe)
           THEN /\ subscribing' = TRUE
                /\ pc' = "subscribe"
                /\ attempt' = Some([yt_channel |-> Unwrap(to_subscribe), now |-> now])
                /\ inflight' = inflight + 1
                /\ timer' = t
                /\ logged' = timed_out \cup
                      {Line("debug", "Subscribing", Unwrap(to_subscribe), None, None)}
           ELSE /\ subscribing' = FALSE
                /\ timer' = First(pen1, sub1, now)
                /\ logged' = timed_out
                /\ UNCHANGED <<pc, attempt, inflight>>

\* The handler without its pending.remove
SubscribedPendingKept(yt_channel) ==
    pending

\* Event::Subscribed: pending.remove(&yt_channel)
SubscribedPending(yt_channel) ==
    MapRemove(pending, yt_channel)

\* Event::Subscribed.  Instant + Duration panics when the sum overflows, which ends
\* the task.
OnSubscribed(yt_channel, lease_seconds) ==
    LET pen1 == SubscribedPending(yt_channel)
        renew == SaturatingSub(lease_seconds, RenewMarginSecs)
        sub1 == MapInsert(subscribed, yt_channel, now + renew.val)
    IN  /\ pending' = pen1
        /\ logged' = {Line("info", "Subscribed", yt_channel, None, None)}
        /\ UNCHANGED <<history, announced, seen, subscribing, attempt, inflight, failed,
                       swept, tried, dropped>>
        /\ IF renew.huge
           THEN /\ pc' = "panicked"
                /\ UNCHANGED <<subscribed, timer>>
           ELSE /\ subscribed' = sub1
                /\ timer' = IF ~subscribing THEN First(pen1, sub1, now) ELSE timer
                /\ UNCHANGED pc

\* Event::SubscriptionDenied
OnSubscriptionDenied(yt_channel, reason) ==
    /\ pending' = MapRemove(pending, yt_channel)
    /\ timer' = Sleep(now + TimeoutSecs)
    /\ logged' = {Line("warn", "denied", yt_channel, reason, Notice)}
    /\ UNCHANGED <<pc, history, subscribed, subscribing, attempt, inflight,
                   announced, seen, failed, swept, tried, dropped>>

\* A message that carries the template as it is
AnnouncementUnrendered(s, p) ==
    [channel_id |-> s.channel_id, content |-> s.text, title |-> p.title,
     yt_id |-> p.yt_id]

\* The message the Publication branch spawns; yt_id is kept with it to tell the
\* announcements of one video apart
Announcement(s, p) ==
    [channel_id |-> s.channel_id,
     content |-> Replace(s.text, <<"%", "I", "D", "%">>, p.yt_id),
     title |-> p.title, yt_id |-> p.yt_id]

\* A test that misses the latest entry of the history
IsDuplicateButLatest(yt_id) ==
    \E i \in 1..(Len(history.inner) - 1) : history.inner[i] = yt_id

\* Event::Publication: history.contains(&p.yt_id)
\* A test that takes every video for new
IsDuplicateNever(yt_id) ==
    FALSE

IsDuplicate(yt_id) ==
    BufferContains(history, yt_id)

\* A lookup that falls back on the first subscription of the map
SubscriptionOrFirst(p) ==
    IF ContainsKey(config.subscriptions, p.yt_channel) \/ config.subscriptions = <<>>
    THEN Get(config.subscriptions, p.yt_channel)
    ELSE Some(Head(config.subscriptions))

\* Event::Publication: inner.subscriptions.get(&p.yt_channel)
SubscriptionOf(p) ==
    Get(config.subscriptions, p.yt_channel)

\* A branch that takes the module for enabled whatever the configuration says
EnabledAtPublicationAlways ==
    TRUE

\* Event::Publication: inner.enabled, read under the lock
EnabledAtPublication ==
    config.enabled

\* Event::Publication
\* A Publication branch that announces nothing and sets the wake 30 seconds on
OnPublicationRearming(p) ==
    /\ timer' = Sleep(now + TimeoutSecs)
    /\ logged' = {}
    /\ UNCHANGED <<pc, subscribed, pending, subscribing, attempt, inflight, failed, swept,
                   tried, dropped, history, announced, seen>>

OnPublication(p) ==
    LET s == SubscriptionOf(p)
    IN  /\ UNCHANGED <<pc, subscribed, pending, timer, subscribing, attempt, inflight,
                       failed, swept, tried>>
        /\ dropped' = IF EnabledAtPublication THEN dropped ELSE dropped \cup {p.yt_id}
        /\ IF ~EnabledAtPublication
           THEN /\ logged' = {}
                /\ UNCHANGED <<history, announced, seen>>
           ELSE IF IsSome(s)
           THEN /\ seen' = [seen EXCEPT ![p.yt_id] = @ + 1]
                /\ logged' = {}
                /\ IF IsDuplicate(p.yt_id)
                   THEN UNCHANGED <<history, announced>>
                   ELSE /\ history' = BufferInsert(history, p.yt_id)
                        /\ announced' = Append(announced, Announcement(Unwrap(s), p))
           ELSE /\ logged' = {Line("info", "Skipping announcement: not subscribed",
                                   p.yt_channel, None, None)}
                /\ UNCHANGED <<history, announced, seen>>

\* tokio::spawn in the Publication branch: the task that sends the message
AnnounceTask(m) ==
    [kind |-> "announce", channel_id |-> m.channel_id, content |-> m.content,
     what |-> "", subject |-> m.yt_id, detail |-> None]

\* tokio::spawn in Announcer::log: the task that sends the log message
LogTask(l) ==
    [kind |-> "log", channel_id |-> Unwrap(l.notice), content |-> <<>>,
     what |-> l.what, subject |-> l.yt_channel, detail |-> l.detail]

\* The tasks one step of the loop spawns: one for each message appended to announced
\* and one for each line that Announcer::log sends to the log channel
Spawned ==
    SetToBag({AnnounceTask(announced'[i]) : i \in (Len(announced) + 1)..Len(announced')})
    (+) SetToBag({LogTask(l) : l \in {k \in logged' : IsSome(k.notice)}})

\* match item
OnEvent(item) ==
    CASE item.type = "Publication" -> OnPublication(item.publication)
      [] item.type = "UpdateSubscriptions" -> OnUpdateSubscriptions(timer)
      [] item.type = "Subscribed" -> OnSubscribed(item.yt_channel, item.lease_seconds)
      [] item.type = "SubscriptionDenied" ->
            OnSubscriptionDenied(item.yt_channel, item.reason)

\* select! yields the next event of the channel
Recv ==
    /\ AtSelect
    /\ queue # <<>>
    /\ OnEvent(Head(queue))
    /\ SetChan(IF pc' = "panicked" THEN Close(Chan) ELSE Receive(Chan))
    /\ outbox' = outbox (+) Spawned
    /\ rejected' = rejected \cap DOMAIN pending'
    /\ http' = None
    /\ hub' = None
    /\ update' = None
    /\ called' = IF Head(queue).type = "UpdateSubscriptions"
                 THEN IF pc' = "subscribe" THEN Some(now) ELSE None
                 ELSE called
    /\ UNCHANGED <<now, config, senders, nreq, undelivered, inserts>>

\* select! yields the timer: Event::UpdateSubscriptions
TimerFire ==
    /\ AtSelect
    /\ ~timer.done
    /\ timer.deadline <= now
    /\ OnUpdateSubscriptions([timer EXCEPT !.done = TRUE])
    /\ outbox' = outbox (+) Spawned
    /\ rejected' = rejected \cap DOMAIN pending'
    /\ http' = None
    /\ hub' = None
    /\ update' = None
    /\ called' = IF pc' = "subscribe" THEN Some(now) ELSE called
    /\ UNCHANGED <<now, config, queue, parked, open, senders, nreq, undelivered, inserts>>

\* A tick that records the channel as pending whatever the request's outcome
PendingAfterAttemptAlways(outcome) ==
    MapInsert(pending, Unwrap(attempt).yt_channel, Unwrap(attempt).now + TimeoutSecs)

\* match subscriber.subscribe(&yt_channel).await: the pending map afterwards
PendingAfterAttempt(outcome) ==
    IF outcome # "no_response"
    THEN MapInsert(pending, Unwrap(attempt).yt_channel, Unwrap(attempt).now + TimeoutSecs)
    ELSE pending

\* A timer that waits twice as long
TimerAfterAttemptDoubled ==
    Sleep(now + 2 * TimeoutSecs)

\* A tick that sets the wake 20 seconds after its attempt has returned
TimerAfterAttemptEarly ==
    Sleep(now + TimeoutSecs - TimeStep)

\* A tick that sets the wake at once after its attempt
TimerAfterAttemptAtOnce ==
    Sleep(now)

\* timer = Box::pin(sleep(timeout).fuse()) at the end of a tick that made an attempt
TimerAfterAttempt ==
    Sleep(now + TimeoutSecs)

\* subscriber.subscribe(&yt_channel).await returns, and the tick ends
SubscribeReturn(outcome) ==
    /\ pc = "subscribe"
    /\ pc' = "select"
    /\ inflight' = inflight - 1
    /\ attempt' = None
    /\ pending' = PendingAfterAttempt(outcome)
    /\ IF outcome # "no_response"
       THEN /\ logged' = {}
            /\ failed' = None
       ELSE /\ logged' = {Line("warn", "Unable to subscribe", Unwrap(attempt).yt_channel,
                               None, Notice)}
            /\ failed' = IF IsSome(failed)
                         THEN Some([yt_channel |-> Unwrap(attempt).yt_channel,
                                    stage |-> "failed"])
                         ELSE None
    /\ timer' = TimerAfterAttempt
    /\ hub' = Some(outcome)
    /\ update' = None
    /\ rejected' = IF outcome = "error_status"
                   THEN rejected \cup {Unwrap(attempt).yt_channel}
                   ELSE rejected \ {Unwrap(attempt).yt_channel}
    /\ http' = None
    /\ UNCHANGED <<now, config, queue, parked, open, senders, nreq, history, subscribed,
                   subscribing, announced, seen, swept, tried, dropped, undelivered,
                   inserts, called>>
    /\ outbox' = outbox (+) Spawned

\* Youtube is dropped, and with it every Sender of the channel
DropSenders ==
    /\ senders
    /\ senders' = FALSE
    /\ http' = None
    /\ hub' = None
    /\ update' = None
    /\ UNCHANGED <<now, config, queue, parked, open, nreq, loopVars, inserts, called>>

\* select! yields None from the channel, which has no message and no Sender: break.
\* run returns, and its Receiver is dropped.
Break ==
    /\ AtSelect
    /\ queue = <<>>
    /\ ~senders
    /\ pc' = "exited"
    /\ SetChan(Close(Chan))
    /\ logged' = {}
    /\ http' = None
    /\ hub' = None
    /\ update' = None
    /\ UNCHANGED <<now, config, senders, nreq, history, subscribed, pending, timer,
                   subscribing, attempt, inflight, announced, seen, failed, swept,
                   tried, rejected, dropped, outbox, undelivered, inserts, called>>

\* Time passes.  The hub request ends within the client's timeout.
Advance ==
    /\ now + TimeStep <= MaxTime
    /\ pc = "subscribe" => now + TimeStep <= Unwrap(attempt).now + ClientTimeoutSecs
    /\ now' = now + TimeStep
    /\ http' = None
    /\ hub' = None
    /\ update' = None
    /\ called' = IF IsSome(called) /\ Unwrap(called) + TimeoutSecs <= now'
                 THEN None ELSE called
    /\ UNCHANGED <<config, queue, parked, open, senders, nreq, loopVars, inserts>>

\* The requests and configuration updates of one behaviour are MaxReq at most.
Next ==
    \/ \E q \in Queries : nreq < MaxReq /\ HttpGet(q)
    \/ \E b \in Bodies : nreq < MaxReq /\ HttpPost(b)
    \/ \E c \in ConfigCalls : nreq < MaxReq /\ ConfigUpdate(c)
    \/ Recv
    \/ TimerFire
    \/ \E o \in HubOutcomes : SubscribeReturn(o)
    \/ Advance

Spec ==
    Init /\ [][Next]_vars

----------------------------------------------------------------------------
(* The module to its end: Youtube may be dropped, and the loop then drains the channel *)

NextDrain ==
    \/ Next
    \/ DropSenders
    \/ Break

SpecDrain ==
    Init /\ [][NextDrain]_vars

----------------------------------------------------------------------------
(* The loop with the tasks it has spawned *)

\* A history that forgets the video whose announcement could not be sent
HistoryForgetsFailed(task, ok) ==
    IF ~ok /\ task.kind = "announce"
    THEN [history EXCEPT !.inner = SelectSeq(@, LAMBDA v : v # task.subject)]
    ELSE history

\* The history when a task finishes: the task was given the client, the channel id,
\* the content and the title, and holds nothing of the loop
HistoryAfterDelivery(task, ok) ==
    history

\* A spawned task finishes: create_message(..).send().await is Ok or Err.  The task
\* holds a clone of the client and its message, and nothing of the loop.
Deliver(task, ok) ==
    /\ BagIn(task, outbox)
    /\ outbox' = outbox (-) SetToBag({task})
    /\ undelivered' = IF ~ok /\ task.kind = "announce"
                      THEN undelivered \cup {task.subject} ELSE undelivered
    /\ history' = HistoryAfterDelivery(task, ok)
    /\ UNCHANGED <<now, config, queue, parked, open, senders, pc, subscribed, pending,
                   timer, subscribing, attempt, inflight, announced, seen, logged,
                   failed, swept, tried, rejected, hub, update, dropped, inserts, called, http,
                   nreq>>

NextDeliver ==
    \/ Next
    \/ \E task \in BagToSet(outbox), ok \in BOOLEAN : Deliver(task, ok)

SpecDeliver ==
    Init /\ [][NextDeliver]_vars

----------------------------------------------------------------------------
(* The webhook alone: every query, under every configuration *)

NextHttp ==
    \/ \E q \in AllQueries : nreq < MaxReq /\ HttpGet(q)
    \/ \E c \in ConfigCalls : nreq < MaxReq /\ ConfigUpdate(c)

SpecHttp ==
    Init /\ [][NextHttp]_vars

----------------------------------------------------------------------------
(* The notifications: every body, under every configuration, with the loop taking the
   events *)

NextPost ==
    \/ \E b \in AllBodies : nreq < MaxReq /\ HttpPost(b)
    \/ \E c \in ConfigCalls : nreq < MaxReq /\ ConfigUpdate(c)
    \/ Recv

SpecPost ==
    Init /\ [][NextPost]_vars

----------------------------------------------------------------------------
(* The channel under load: requests arrive faster than the loop takes their events,
   and the hub has not yet answered the loop's subscribe request *)

BusyQueries ==
    {Query(Some("denied"), Some(TopicOf(ChA)), None, None, Some("quota")),
     Query(Some("subscribe"), Some(TopicOf(ChA)), Some("abc123"), Some(<<"7", "0", "0">>), None)}

BusyBodies ==
    {Body(TRUE, FeedOf(ChA, IdX, "Hello"))}

BusyConfigCalls ==
    {[name |-> "youtube",
      value |-> Some([enabled |-> TRUE, subscriptions |-> <<SubA>>, log_channel |-> None])]}

NextChannel ==
    \/ \E q \in BusyQueries : nreq < MaxSends /\ HttpGet(q)
    \/ \E b \in BusyBodies : nreq < MaxSends /\ HttpPost(b)
    \/ \E c \in BusyConfigCalls : nreq < MaxSends /\ ConfigUpdate(c)
    \/ Recv

SpecChannel ==
    Init /\ [][NextChannel]_vars

----------------------------------------------------------------------------
(* The configuration calls, with a channel that fills: one more request than
   MaxSends, so that Youtube's own Sender is refused *)

NextConfig ==
    \/ \E c \in ConfigCalls : nreq <= MaxSends /\ ConfigUpdate(c)
    \/ \E b \in BusyBodies : nreq <= MaxSends /\ HttpPost(b)
    \/ Recv

SpecConfig ==
    Init /\ [][NextConfig]_vars

----------------------------------------------------------------------------
(* The history under a run of notifications: after one configuration call, the videos
   of WindowIds are published one at a time, each either the next new video or one
   published before, until the history has had to evict *)

NextWindow ==
    \/ \E c \in ConfigCalls : nreq = 0 /\ ConfigUpdate(c)
    \/ \E i \in WindowIds :
          /\ nreq >= 1
          /\ nreq < MaxPosts
          /\ queue = <<>>
          /\ Len(i) <= Cardinality({announced[n].yt_id : n \in 1..Len(announced)}) + 1
          /\ HttpPost(Body(TRUE, FeedOf(ChA, i, "Hello")))
    \/ Recv
    \/ \E o \in HubOutcomes : SubscribeReturn(o)

SpecWindow ==
    Init /\ [][NextWindow]_vars

----------------------------------------------------------------------------
(* The loop with a hub that cooperates: after the first configuration call the
   configuration stays; every subscribe request is answered with a success status;
   the hub verifies every pending channel before its deadline, with a lease above
   600 seconds; no denial comes.  Time passes only while the loop has nothing to
   take, and every step that can be taken is taken in the end. *)

\* The hub's verification GET for a channel that awaits validation
Verifies ==
    \E k \in DOMAIN pending :
        \E l \in {<<"7", "0", "0">>, <<"6", "1", "0">>, U64MaxDigits} :
            /\ pc = "select"
            /\ \A i \in 1..Len(queue) : queue[i].type # "Subscribed"
            /\ HttpGet(Query(Some("subscribe"), Some(TopicOf(k)), Some("abc123"), Some(l), None))

\* Time passes while the loop waits at its select, no entry running out of time
Waits ==
    /\ pc = "select"
    /\ queue = <<>>
    /\ timer.done \/ timer.deadline > now
    /\ \A k \in DOMAIN pending : now + TimeStep < pending[k]
    /\ Advance

NextLive ==
    \/ \E c \in ConfigCalls : nreq = 0 /\ now = 0 /\ ConfigUpdate(c)
    \/ Recv
    \/ TimerFire
    \/ SubscribeReturn("success_status")
    \/ Verifies
    \/ Waits

SpecLive ==
    /\ Init
    /\ [][NextLive]_vars
    /\ WF_vars(Recv)
    /\ WF_vars(TimerFire)
    /\ WF_vars(SubscribeReturn("success_status"))
    /\ WF_vars(Verifies)
    /\ WF_vars(Waits)

----------------------------------------------------------------------------
(* Buffer alone: buffers of every small capacity, any values inserted *)

BufValues ==
    1..(MaxCapacity + 1)

InitBuffer ==
    /\ InitButHistory
    /\ \E c \in 1..MaxCapacity : history = BufferNew(c)

\* One call of Buffer::insert
Insert(value) ==
    /\ Len(inserts) < MaxCapacity + 2
    /\ inserts' = Append(inserts, [value |-> value, pop |-> BufferInsertPop(history)])
    /\ history' = BufferInsert(history, value)
    /\ UNCHANGED <<now, config, queue, parked, open, senders, pc, subscribed, pending, timer,
                   subscribing, attempt, inflight, announced, seen, logged, failed,
                   swept, tried, rejected, hub, update, dropped, outbox, undelivered,
                   called, http, nreq>>

NextBuffer ==
    \E v \in BufValues : Insert(v)

SpecBuffer ==
    InitBuffer /\ [][NextBuffer]_vars

----------------------------------------------------------------------------
(* The properties *)

\* The loop dequeues an event in this step (or is ended by it)
Dequeues ==
    /\ pc = "select"
    /\ queue # <<>>
    /\ \/ Len(queue') = Len(queue) - 1
       \/ open /\ ~open'

\* C1: no channel is a key of both the pending and the subscribed map, whatever
\* events and configuration updates have been processed.
C1_PendingSubscribedDisjoint ==
    DOMAIN pending \cap DOMAIN subscribed = {}

\* One channel confirmed and another awaiting validation.
C1_Witness ==
    /\ DOMAIN subscribed # {}
    /\ DOMAIN pending # {}

\* C2: at most one hub subscribe request is out at any time, and from the tick that
\* sends it until it returns the loop takes nothing from the channel and handles no
\* timer expiry: what arrives is queued behind what was queued, and the only step of
\* the loop is the return of the request.
C2_OneSubscribeInFlight ==
    [][/\ inflight <= 1
       /\ inflight' <= 1
       /\ (pc = "subscribe") = (inflight = 1)
       /\ pc = "subscribe" =>
            /\ Len(queue') >= Len(queue)
            /\ SubSeq(queue', 1, Len(queue)) = queue
            /\ \/ UNCHANGED <<pc, history, subscribed, pending, timer, subscribing, attempt,
                             inflight, announced, seen, logged>>
               \/ /\ pc' = "select"
                  /\ inflight' = 0
                  /\ UNCHANGED <<history, subscribed, announced, seen, subscribing>>]_vars

\* A request is out, time has passed since it was sent, and events wait in the queue.
C2_Witness ==
    /\ pc = "subscribe"
    /\ inflight = 1
    /\ Len(queue) >= 2
    /\ now > Unwrap(attempt).now

\* The announcements of a video
AnnouncementsOf(yt_id) ==
    {i \in 1..Len(announced) : announced[i].yt_id = yt_id}

DistinctInserts ==
    \A i, j \in 1..Len(inserts) : inserts[i].value = inserts[j].value => i = j

\* C4: after capacity + 1 distinct values have been inserted in a Buffer, it does not
\* contain the first and contains each of the others; the last insert returned the
\* first value, and every insert before it returned None.
C4_BufferEvictsOldest ==
    (Len(inserts) = history.capacity + 1 /\ DistinctInserts) =>
        /\ ~BufferContains(history, inserts[1].value)
        /\ \A i \in 2..Len(inserts) : BufferContains(history, inserts[i].value)
        /\ inserts[Len(inserts)].pop = Some(inserts[1].value)
        /\ \A i \in 1..(Len(inserts) - 1) : inserts[i].pop = None

\* A Buffer of capacity 3 after four distinct inserts.
C4_Witness ==
    /\ history.capacity = 3
    /\ Len(inserts) = 4
    /\ DistinctInserts

\* The loop handles a Subscribed event in this step
HandlesSubscribed ==
    /\ Dequeues
    /\ Head(queue).type = "Subscribed"

\* The expiry the ledger is to hold for a lease granted at time t
RenewAt(t, lease_seconds) ==
    t + (IF lease_seconds.val > RenewMarginSecs
         THEN lease_seconds.val - RenewMarginSecs ELSE 0)

\* The step records the event's channel in subscribed, with the expiry of its lease
RecordsLease(ev) ==
    /\ ev.yt_channel \in DOMAIN subscribed'
    /\ ~ev.lease_seconds.huge =>
          subscribed'[ev.yt_channel] = RenewAt(now, ev.lease_seconds)

\* C5: handling Subscribed(channel, lease) at time now records the channel in
\* subscribed with expiry now + max(lease - 600, 0): now + 100 for a lease of 700,
\* now for a lease of 600 or less.
C5_LeaseExpiry ==
    [][HandlesSubscribed => RecordsLease(Head(queue))]_vars

\* What holds of the code: the expiry is as C5 says for every lease the Instant can
\* hold, and a lease of 600 or less is swept by the next tick.
C5_LeaseExpiryBelowOverflow ==
    [][/\ (HandlesSubscribed /\ ~Head(queue).lease_seconds.huge) =>
              RecordsLease(Head(queue))
       /\ \A k \in DOMAIN subscribed' \ DOMAIN subscribed :
              subscribed'[k] >= now]_vars

\* The loop handles a Publication in this step
HandlesPublication ==
    /\ Dequeues
    /\ Head(queue).type = "Publication"

\* C6: a Publication whose channel is not a key of the subscriptions gives no
\* announcement and leaves the history as it is, so its video id is not taken for a
\* duplicate later.
C6_UnknownTopicDropped ==
    [][(/\ HandlesPublication
        /\ ~ContainsKey(config.subscriptions, Head(queue).publication.yt_channel))
       => /\ announced' = announced
          /\ history' = history
          /\ seen' = seen]_vars

\* An enabled module has skipped a Publication of a channel it is not subscribed to,
\* and nothing has been announced or recorded.
C6_Witness ==
    /\ config.enabled
    /\ \E l \in logged : l.what = "Skipping announcement: not subscribed"
                         /\ ~ContainsKey(config.subscriptions, l.yt_channel)
    /\ announced = <<>>
    /\ history.inner = <<>>

\* The subscribe request returns without a response in this step
AttemptFails ==
    /\ pc = "subscribe"
    /\ IsSome(failed')
    /\ Unwrap(failed').stage = "failed"

\* The first tick since a failed attempt, the module enabled and the configuration
\* as it was
TickAfterFailure ==
    /\ IsSome(failed)
    /\ Unwrap(failed).stage = "failed"
    /\ IsSome(failed')
    /\ Unwrap(failed').stage = "retried"
    /\ config.enabled

\* This step sends the subscribe request for the channel
Attempts(yt_channel) ==
    /\ pc = "select"
    /\ pc' = "subscribe"
    /\ Unwrap(attempt').yt_channel = yt_channel

KeysBefore(subs, k) ==
    {subs[i].key : i \in {i \in 1..Len(subs) : \E j \in (i + 1)..Len(subs) : subs[j].key = k}}

\* After the sweep of this tick the failed channel is still in neither map, and every
\* channel before it in iteration order is still in one
StillFirstFree(k) ==
    /\ k \notin DOMAIN pending' \cup DOMAIN subscribed'
    /\ KeysBefore(config.subscriptions, k) \subseteq DOMAIN pending' \cup DOMAIN subscribed'

AnswersGet ==
    /\ nreq' = nreq + 1
    /\ IsSome(http')
    /\ Unwrap(http').method = "GET"

\* The query names a feed of the expected prefix
HasFeedTopic(q) ==
    /\ IsSome(q.topic)
    /\ StartsWith(Unwrap(q.topic), TOPIC_URL)

\* The channel the query's topic names
ChannelOf(q) ==
    StrFrom(Unwrap(q.topic), Len(TOPIC_URL))

\* A verification of a subscribed channel, complete and well-formed
IsVerification(q) ==
    /\ q.mode = Some("subscribe")
    /\ HasFeedTopic(q)
    /\ ContainsKey(config.subscriptions, ChannelOf(q))
    /\ IsSome(q.challenge)
    /\ IsSome(q.lease_seconds)
    /\ IsSome(ParseU64(Unwrap(q.lease_seconds)))

\* C8: a verification GET (mode=subscribe, a topic of the feed prefix whose channel is
\* subscribed, a challenge, a numeric lease_seconds) is answered 200 with the challenge
\* as body and queues Subscribed(channel, lease); when the loop handles that event the
\* channel is recorded in subscribed with expiry max(lease - 600, 0) from then.
C8_VerificationRoundTrip ==
    [][/\ (AnswersGet /\ IsVerification(Unwrap(http').request)) =>
            LET q == Unwrap(http').request
            IN  /\ Unwrap(http').status = 200
                /\ Unwrap(http').body = Unwrap(q.challenge)
                /\ queue' = Append(queue,
                      EvSubscribed(ChannelOf(q), Unwrap(ParseU64(Unwrap(q.lease_seconds)))))
       /\ HandlesSubscribed => RecordsLease(Head(queue))]_vars

\* What holds of the code: the answer, always; the event queued, while the loop lives
\* to receive it; the expiry, for every lease the Instant can hold.
C8_RoundTripBelowOverflow ==
    [][/\ (AnswersGet /\ IsVerification(Unwrap(http').request)) =>
            LET q == Unwrap(http').request
            IN  /\ Unwrap(http').status = 200
                /\ Unwrap(http').body = Unwrap(q.challenge)
                /\ open => queue' = Append(queue,
                      EvSubscribed(ChannelOf(q), Unwrap(ParseU64(Unwrap(q.lease_seconds)))))
       /\ (HandlesSubscribed /\ ~Head(queue).lease_seconds.huge) =>
            RecordsLease(Head(queue))]_vars

\* C9: a verification or denial GET for a channel that is not a key of the
\* subscriptions is answered 404, queues no event, and leaves pending, subscribed and
\* the timer as they are.
C9_UnknownTopicIs404 ==
    [][(/\ AnswersGet
        /\ Unwrap(http').request.mode \in {Some("subscribe"), Some("denied")}
        /\ HasFeedTopic(Unwrap(http').request)
        /\ ~ContainsKey(config.subscriptions, ChannelOf(Unwrap(http').request)))
       => /\ Unwrap(http').status = 404
          /\ UNCHANGED <<queue, parked, pending, subscribed, timer>>]_vars

\* A denial for a channel that is not subscribed was answered 404 while another
\* channel was awaiting validation.
C9_Witness ==
    /\ IsSome(http)
    /\ Unwrap(http).method = "GET"
    /\ Unwrap(http).request.mode = Some("denied")
    /\ Unwrap(http).status = 404
    /\ DOMAIN pending # {}

\* The query lacks a required parameter, has an unrecognised mode, or names no feed
MalformedQuery(q) ==
    \/ ~IsSome(q.mode)
    \/ ~IsSome(q.topic)
    \/ q.mode \notin {Some("subscribe"), Some("denied")}
    \/ ~HasFeedTopic(q)
    \/ /\ q.mode = Some("subscribe")
       /\ \/ ~IsSome(q.challenge)
          \/ ~IsSome(q.lease_seconds)
          \/ ~IsSome(ParseU64(Unwrap(q.lease_seconds)))

\* C10 as stated: a malformed GET is answered 400 and queues no event.
C10_MalformedIs400 ==
    [][(AnswersGet /\ MalformedQuery(Unwrap(http').request))
       => /\ Unwrap(http').status = 400
          /\ UNCHANGED <<queue, parked>>]_vars

\* The query has mode and topic, and names a feed whose channel is not subscribed
NamesUnknownChannel(q) ==
    /\ IsSome(q.mode)
    /\ HasFeedTopic(q)
    /\ ~ContainsKey(config.subscriptions, ChannelOf(q))

\* C10 as amended: a malformed GET queues no event and is answered 400, except that
\* one with both mode and topic whose topic names a feed of a channel that is not
\* subscribed is answered 404, whatever else it lacks and whatever its mode.
C10_MalformedIs400Or404 ==
    [][(AnswersGet /\ MalformedQuery(Unwrap(http').request))
       => /\ Unwrap(http').status =
                IF NamesUnknownChannel(Unwrap(http').request) THEN 404 ELSE 400
          /\ UNCHANGED <<queue, parked>>]_vars

\* A verification of a subscribed channel that lacks its challenge was answered 400.
C10_Witness ==
    /\ IsSome(http)
    /\ Unwrap(http).method = "GET"
    /\ Unwrap(http).status = 400
    /\ Unwrap(http).request.mode = Some("subscribe")
    /\ HasFeedTopic(Unwrap(http).request)
    /\ ContainsKey(config.subscriptions, ChannelOf(Unwrap(http).request))
    /\ ~IsSome(Unwrap(http).request.challenge)
    /\ Unwrap(http).request.lease_seconds = Some(<<"7", "0", "0">>)

\* A POST of the webhook is answered in this step
AnswersPost ==
    /\ nreq' = nreq + 1
    /\ IsSome(http')
    /\ Unwrap(http').method = "POST"

\* The children of that name and namespace, in document order
ChildrenNamed(e, name, ns) ==
    SelectSeq(e.children, LAMBDA c : c.name = name /\ c.ns = ns)

\* The element has a child of that name and namespace, and the first such has text
HasText(e, name, ns) ==
    /\ ChildrenNamed(e, name, ns) # <<>>
    /\ Head(ChildrenNamed(e, name, ns)).texts # <<>>

\* The text of the first child of that name and namespace
TextOf(e, name, ns) ==
    Head(Head(ChildrenNamed(e, name, ns)).texts)

\* The entry of a document that has one
EntryOf(doc) ==
    Head(ChildrenNamed(Unwrap(doc), "entry", BASE_NS))

\* The body is UTF-8, is XML, and has an entry with the text of its title, video id
\* and channel id
IsNotification(b) ==
    /\ b.utf8
    /\ IsSome(b.doc)
    /\ ChildrenNamed(Unwrap(b.doc), "entry", BASE_NS) # <<>>
    /\ HasText(EntryOf(b.doc), "title", BASE_NS)
    /\ HasText(EntryOf(b.doc), "videoId", YT_NS)
    /\ HasText(EntryOf(b.doc), "channelId", YT_NS)

\* The Publication of a notification: the texts of its entry
PublicationOf(b) ==
    [title |-> TextOf(EntryOf(b.doc), "title", BASE_NS),
     yt_id |-> TextOf(EntryOf(b.doc), "videoId", YT_NS),
     yt_channel |-> TextOf(EntryOf(b.doc), "channelId", YT_NS)]

\* C11: a POST whose body is not UTF-8, not XML, or lacks a required element or its
\* text is answered 400 and queues no event, leaving the ledger and the history as
\* they are; a POST that parses is answered 200 and queues exactly one Publication.
C11_PostQueuesOneOrRejects ==
    [][AnswersPost =>
        LET b == Unwrap(http').request
        IN  IF IsNotification(b)
            THEN /\ Unwrap(http').status = 200
                 /\ queue' = Append(queue, EvPublication(PublicationOf(b)))
            ELSE /\ Unwrap(http').status = 400
                 /\ UNCHANGED <<queue, parked, pending, subscribed, history>>]_vars

\* What holds of the code: the answers, always; the one Publication queued, while the
\* loop lives to receive it.
C11_PostWhileLoopLives ==
    [][AnswersPost =>
        LET b == Unwrap(http').request
        IN  IF IsNotification(b)
            THEN /\ Unwrap(http').status = 200
                 /\ queue' = IF open THEN Append(queue, EvPublication(PublicationOf(b)))
                             ELSE queue
            ELSE /\ Unwrap(http').status = 400
                 /\ UNCHANGED <<queue, parked, pending, subscribed, history>>]_vars

\* A request of the webhook is answered in this step
AnswersWebhook ==
    AnswersGet \/ AnswersPost

\* What the handler makes of the request answered in this step: its reply and the
\* event it sends
HandledNow ==
    IF Unwrap(http').method = "GET"
    THEN http_get(config, Unwrap(http').request)
    ELSE http_post(Unwrap(http').request)

\* The caller gets the reply of the handler
NormalResponse ==
    /\ Unwrap(http').status = Unwrap(HandledNow.reply).status
    /\ Unwrap(http').body = Unwrap(HandledNow.reply).body

\* C12: when the channel is full (it holds as many events as its buffer), a webhook
\* handler's send discards the new event and keeps the events queued, and the caller
\* gets the response it would have got had the event been queued.
C12_FullChannelDropsNewEvent ==
    [][(AnswersWebhook /\ IsSome(HandledNow.send) /\ Len(queue) >= ChannelBuffer)
       => /\ queue' = queue
          /\ NormalResponse]_vars

\* What holds of the code: a handler sends through a sender cloned for the one send,
\* which is never refused while the loop lives, so the event is queued behind the
\* others however many there are; the response is the normal one in every case.
C12_HandlerAlwaysQueues ==
    [][(AnswersWebhook /\ IsSome(HandledNow.send))
       => /\ queue' = IF open THEN Append(queue, Unwrap(HandledNow.send)) ELSE queue
          /\ NormalResponse]_vars

\* C13: the events queued and not yet received by the loop are never more than 8,
\* whatever requests and configuration updates arrive.
C13_ChannelBounded ==
    Len(queue) <= ChannelBuffer

\* "New video: XYZ"
NewVideoXYZ ==
    <<"N", "e", "w", " ", "v", "i", "d", "e", "o", ":", " ", "X", "Y", "Z">>

\* The Publication is one the loop announces: module enabled, channel subscribed, video
\* not in the history
IsAnnounced(p) ==
    /\ config.enabled
    /\ ContainsKey(config.subscriptions, p.yt_channel)
    /\ ~BufferContains(history, p.yt_id)

\* The subscription of the Publication's channel
RuleOf(p) ==
    Unwrap(Get(config.subscriptions, p.yt_channel))

\* C14: a Publication that is announced dispatches exactly one message, to the
\* channel_id of the subscription of the publication's channel, its content the
\* subscription's text with %ID% replaced by the video id ("New video: %ID%" and XYZ
\* give "New video: XYZ"); a Publication that is not announced dispatches none.
C14_OneRenderedMessage ==
    [][HandlesPublication =>
        LET p == Head(queue).publication
        IN  IF IsAnnounced(p)
            THEN /\ Len(announced') = Len(announced) + 1
                 /\ SubSeq(announced', 1, Len(announced)) = announced
                 /\ announced'[Len(announced')].channel_id = RuleOf(p).channel_id
                 /\ announced'[Len(announced')].content =
                        Replace(RuleOf(p).text, <<"%", "I", "D", "%">>, p.yt_id)
                 /\ (RuleOf(p).text = TextNew /\ p.yt_id = IdX) =>
                        announced'[Len(announced')].content = NewVideoXYZ
                 /\ \E i \in 1..Len(RuleOf(p).text) :
                        announced'[Len(announced')].content =
                            SubSeq(RuleOf(p).text, 1, i - 1) \o p.yt_id
                            \o Replace(SubSeq(RuleOf(p).text, i + 4, Len(RuleOf(p).text)),
                                       <<"%", "I", "D", "%">>, p.yt_id)
            ELSE announced' = announced]_vars

\* "New video: XYZ" has been sent to channel 123, and one message more for another
\* video.
C14_Witness ==
    /\ \E i \in 1..Len(announced) :
          announced[i].content = NewVideoXYZ /\ announced[i].channel_id = "123"
    /\ \E i \in 1..Len(announced) : announced[i].yt_id = IdY
    /\ Len(announced) = 2

\* The loop ends in this step
LoopEnds ==
    /\ pc \in {"select", "subscribe"}
    /\ pc' \notin {"select", "subscribe"}

\* C15: the loop ends only when every Sender has been dropped and the channel is empty,
\* so every event queued before the last Sender was dropped has been handled; a timer
\* expiry never ends it.
C15_EndsOnlyDrained ==
    [][LoopEnds => (~senders /\ queue = <<>>)]_vars

\* What holds of the code: the loop breaks only when every Sender has been dropped and
\* the channel is empty; its one other end is the panic of a Subscribed event whose
\* lease overflows the Instant.
C15_BreaksOnlyDrained ==
    [][LoopEnds =>
        \/ pc' = "exited" /\ ~senders /\ queue = <<>>
        \/ /\ pc' = "panicked"
           /\ HandlesSubscribed
           /\ Head(queue).lease_seconds.huge]_vars

\* The last attempt has failed and its retry tick has not come, before and after
\* this step
AwaitsRetry ==
    /\ IsSome(failed)
    /\ Unwrap(failed).stage = "failed"
    /\ IsSome(failed')
    /\ Unwrap(failed').stage = "failed"

\* The loop handles a SubscriptionDenied event in this step
HandlesDenied ==
    /\ Dequeues
    /\ Head(queue).type = "SubscriptionDenied"

WakeDue ==
    /\ ~timer.done
    /\ timer.deadline <= now

RequiredChildren ==
    {<<"title", BASE_NS>>, <<"videoId", YT_NS>>, <<"channelId", YT_NS>>}

\* The errors that describe what the document lacks
ErrorsOf(doc) ==
    IF ~IsSome(doc) THEN {<<"InvalidXml">>}
    ELSE IF ChildrenNamed(Unwrap(doc), "entry", BASE_NS) = <<>>
    THEN {<<"MissingChild", "entry">>}
    ELSE {<<"MissingChild", c[1]>> : c \in {c \in RequiredChildren :
                ChildrenNamed(EntryOf(doc), c[1], c[2]) = <<>>}}
         \cup {<<"MissingChildInner", c[1]>> : c \in {c \in RequiredChildren :
                /\ ChildrenNamed(EntryOf(doc), c[1], c[2]) # <<>>
                /\ ~HasText(EntryOf(doc), c[1], c[2])}}

\* C18: for a feed whose entry has title, videoId and channelId with text, from_str
\* gives the Publication of those texts; for anything else it gives one error and no
\* Publication: InvalidXml for what is not XML, MissingChild(name) for an entry or a
\* required child that is absent, MissingChildInner(name) for a child without text.
C18_ParseAllOrNothing ==
    [][(AnswersPost /\ Unwrap(http').request.utf8) =>
        LET b == Unwrap(http').request
            parsed == from_str(b.doc)
        IN  IF IsNotification(b)
            THEN /\ parsed = Ok(PublicationOf(b))
                 /\ ErrorsOf(b.doc) = {}
            ELSE /\ ~parsed.ok
                 /\ parsed.err \in ErrorsOf(b.doc)
                 /\ queue' = queue]_vars

\* A feed whose entry has an empty title and no videoId was posted and rejected, the
\* error naming the title's missing text.
C18_Witness ==
    /\ IsSome(http)
    /\ Unwrap(http).method = "POST"
    /\ Unwrap(http).status = 400
    /\ Unwrap(http).request = Body(TRUE, FeedOfShape("absent", "text", "empty"))
    /\ from_str(Unwrap(http).request.doc) = Err(<<"MissingChildInner", "title">>)

\* The loop handles an UpdateSubscriptions event of the channel in this step
HandlesUpdate ==
    /\ Dequeues
    /\ Head(queue).type = "UpdateSubscriptions"

\* The loop takes the timer's wake in this step
TakesWake ==
    /\ pc = "select"
    /\ WakeDue
    /\ timer' # timer
    /\ UNCHANGED <<queue, now, nreq, senders>>

\* A tick: the UpdateSubscriptions branch runs in this step
Tick ==
    HandlesUpdate \/ TakesWake

\* The entries of a map whose instant is later than now
LaterEntries(m) ==
    [k \in {k \in DOMAIN m : m[k] > now} |-> m[k]]

\* C19: every tick, with the module enabled or disabled, removes the subscribed
\* entries and the pending entries whose instant is not later than the tick's time,
\* keeps the later ones, and reports "Validation timed out" once for each pending
\* entry removed and for nothing else.
C19_TickSweeps ==
    [][Tick =>
        /\ subscribed' = LaterEntries(subscribed)
        /\ pending' = LaterEntries(pending)
        /\ {l.yt_channel : l \in {l \in logged' : l.what = "Validation timed out"}}
              = DOMAIN pending \ DOMAIN LaterEntries(pending)
        /\ Cardinality({l \in logged' : l.what = "Validation timed out"})
              = Cardinality(DOMAIN pending \ DOMAIN LaterEntries(pending))]_vars

\* A tick of the disabled module has just removed a pending entry at the very instant
\* of its deadline and reported it, while a subscribed entry with a later expiry stays.
C19_Witness ==
    /\ ~config.enabled
    /\ \E l \in logged : l.what = "Validation timed out" /\ l.yt_channel \notin DOMAIN pending
    /\ \E k \in DOMAIN subscribed : subscribed[k] > now

\* C20 as stated: the attempt that renews a channel whose subscribed entry a tick's
\* sweep removed is made by a later tick, not by the tick that removed it.
C20_RenewedByLaterTick ==
    [][Tick => \A k \in DOMAIN subscribed \ DOMAIN subscribed' : ~Attempts(k)]_vars

\* C20 as amended: a channel whose subscribed entry a tick's sweep removed is free at
\* once, and that same tick makes the renewing attempt exactly when the module is
\* enabled, the channel is still a key of the subscriptions, and every channel before
\* it in iteration order is pending or subscribed.
C20_RenewedBySameTickWhenFirstFree ==
    [][Tick => \A k \in DOMAIN subscribed \ DOMAIN subscribed' :
        /\ k \notin DOMAIN pending'
        /\ Attempts(k) <=> /\ config.enabled
                           /\ ContainsKey(config.subscriptions, k)
                           /\ StillFirstFree(k)]_vars

\* The request that renews a channel is out, sent by the tick whose sweep removed the
\* channel's subscribed entry.
C20_Witness ==
    /\ pc = "subscribe"
    /\ Unwrap(attempt).yt_channel \in swept
    /\ Unwrap(attempt).yt_channel \notin DOMAIN subscribed

----------------------------------------------------------------------------
(* C21: a tick while the module is disabled *)

\* C21: a tick taken while the module is disabled sends no subscribe request and adds
\* no entry to pending or subscribed (its sweep may only remove entries), and it
\* leaves the wake as it found it: an UpdateSubscriptions event leaves the timer
\* untouched, and a tick the timer itself fired leaves the timer terminated at its old
\* deadline, so that no wake is due again until some event assigns the timer.
C21_DisabledTickKeepsWake ==
    [][Tick /\ ~config.enabled =>
        /\ pc' = pc
        /\ inflight' = inflight
        /\ attempt' = attempt
        /\ subscribing' = subscribing
        /\ DOMAIN pending' \subseteq DOMAIN pending
        /\ DOMAIN subscribed' \subseteq DOMAIN subscribed
        /\ \A k \in DOMAIN pending' : pending'[k] = pending[k]
        /\ \A k \in DOMAIN subscribed' : subscribed'[k] = subscribed[k]
        /\ timer'.deadline = timer.deadline
        /\ timer'.done = (timer.done \/ TakesWake)
        /\ TakesWake => ~WakeDue']_vars

\* The timer has fired while the module was disabled: the loop is back at select!
\* with the timer terminated, past its deadline, and no request out.
C21_Witness ==
    /\ ~config.enabled
    /\ pc = "select"
    /\ timer.done
    /\ timer.deadline <= now
    /\ tried = None
    /\ inflight = 0

----------------------------------------------------------------------------
(* C22: the channel a tick subscribes to *)

\* The channels of the configurations
YtChannels ==
    {ChA, ChB}

\* C22: a tick taken while the module is enabled sends its request for the first key
\* of the subscriptions, in iteration order, that the sweep has left in neither
\* pending nor subscribed; a request is only ever sent by such a tick, one a tick, for
\* a channel that is a key of the subscriptions and in neither map, and every key
\* before it is then pending or subscribed.
C22_AttemptsFirstFree ==
    [][/\ Tick /\ config.enabled =>
              \A k \in YtChannels :
                  ContainsKey(config.subscriptions, k) /\ StillFirstFree(k) => Attempts(k)
       /\ \A k \in YtChannels :
              Attempts(k) =>
                  /\ Tick
                  /\ config.enabled
                  /\ ContainsKey(config.subscriptions, k)
                  /\ StillFirstFree(k)
                  /\ inflight = 0
                  /\ inflight' = 1
       /\ pc = "select" /\ pc' = "subscribe" => \E k \in YtChannels : Attempts(k)]_vars

\* The request is out for the second key of the subscriptions, the first being
\* pending or subscribed.
C22_Witness ==
    /\ pc = "subscribe"
    /\ Len(config.subscriptions) = 2
    /\ Unwrap(attempt).yt_channel = config.subscriptions[2].key
    /\ config.subscriptions[1].key \in DOMAIN pending \cup DOMAIN subscribed
    /\ config.subscriptions[2].key \notin DOMAIN pending \cup DOMAIN subscribed

----------------------------------------------------------------------------
(* C23: the end of a tick that made an attempt *)

\* C23 as stated: when the subscribe call succeeds (the hub answers with a success
\* status) the candidate is inserted into pending with a deadline 30 seconds after
\* the attempt was issued; when it fails (an error status, or no answer) pending and
\* subscribed are unchanged; either way the wake is set 30 seconds ahead and the tick
\* ends without a second attempt.
C23_FailedCallLeavesPending ==
    [][pc = "subscribe" /\ pc' = "select" =>
        /\ timer' = Sleep(now + TimeoutSecs)
        /\ inflight' = 0
        /\ attempt' = None
        /\ subscribed' = subscribed
        /\ IF hub' = Some("success_status")
           THEN pending' = MapInsert(pending, Unwrap(attempt).yt_channel,
                                     Unwrap(attempt).now + TimeoutSecs)
           ELSE pending' = pending]_vars

\* C23, what the loop does: the candidate is inserted whenever the hub answers at
\* all, whatever the status, and pending is left alone only when no answer came.
C23_AnyAnswerInsertsPending ==
    [][pc = "subscribe" /\ pc' = "select" =>
        /\ timer' = Sleep(now + TimeoutSecs)
        /\ inflight' = 0
        /\ attempt' = None
        /\ subscribed' = subscribed
        /\ IF hub' # Some("no_response")
           THEN pending' = MapInsert(pending, Unwrap(attempt).yt_channel,
                                     Unwrap(attempt).now + TimeoutSecs)
           ELSE pending' = pending]_vars

----------------------------------------------------------------------------
(* C24: the wake of a tick that finds no candidate *)

\* C24: a tick taken while the module is enabled that finds no candidate sends no
\* request and sets the wake to the earliest of the pending deadlines and subscribed
\* expiries that its sweep has left, or to 24 hours from now when both maps are empty.
C24_WakeAtEarliestEntry ==
    [][/\ Tick
       /\ config.enabled
       /\ \A i \in 1..Len(config.subscriptions) :
              config.subscriptions[i].key \in DOMAIN pending' \cup DOMAIN subscribed'
       => LET instants == {pending'[k] : k \in DOMAIN pending'}
                          \cup {subscribed'[k] : k \in DOMAIN subscribed'}
          IN  /\ pc' = "select"
              /\ ~timer'.done
              /\ IF instants = {}
                 THEN timer'.deadline = now + DaySecs
                 ELSE /\ timer'.deadline \in instants
                      /\ \A d \in instants : timer'.deadline <= d]_vars

\* A tick has swept a pending entry that timed out, found every key of the
\* subscriptions pending or subscribed, and set the wake to the earliest instant the
\* maps hold, a subscribed expiry that lies ahead.
C24_Witness ==
    /\ config.enabled
    /\ pc = "select"
    /\ ~subscribing
    /\ tried = None
    /\ \E l \in logged : l.what = "Validation timed out"
    /\ DOMAIN subscribed # {}
    /\ \A i \in 1..Len(config.subscriptions) :
          config.subscriptions[i].key \in DOMAIN pending \cup DOMAIN subscribed
    /\ ~timer.done
    /\ timer.deadline > now
    /\ \E k \in DOMAIN subscribed : timer.deadline = subscribed[k]
    /\ \A k \in DOMAIN subscribed : timer.deadline <= subscribed[k]
    /\ \A k \in DOMAIN pending : timer.deadline <= pending[k]

----------------------------------------------------------------------------
(* C25: Subscribed and the wake *)

\* C25 as stated: handling Subscribed(topic, lease) removes the topic from pending
\* and inserts it into subscribed; the wake is left as it is when the event confirms
\* the attempt the most recent tick made, and is otherwise recomputed at once as the
\* earliest instant the maps hold.
C25_RecomputesUnlessConfirmation ==
    [][HandlesSubscribed =>
        LET ev == Head(queue)
        IN  /\ ev.yt_channel \notin DOMAIN pending'
            /\ ev.yt_channel \in DOMAIN subscribed'
            /\ timer' = IF tried = Some(ev.yt_channel)
                        THEN timer
                        ELSE First(pending', subscribed', now)]_vars

\* C25, what the loop does: the topic leaves pending; a lease whose expiry the Instant
\* cannot hold ends the task before the insert; otherwise the topic is inserted, and
\* the wake is recomputed exactly when the flag subscribing is down, which it is from
\* a tick that found no candidate until the next tick that finds one, whatever topic
\* the event names.
C25_RecomputesWhenFlagDown ==
    [][HandlesSubscribed =>
        LET ev == Head(queue)
        IN  /\ ev.yt_channel \notin DOMAIN pending'
            /\ IF SaturatingSub(ev.lease_seconds, RenewMarginSecs).huge
               THEN pc' = "panicked" /\ subscribed' = subscribed /\ timer' = timer
               ELSE /\ ev.yt_channel \in DOMAIN subscribed'
                    /\ timer' = IF subscribing
                                THEN timer
                                ELSE First(pending', subscribed', now)]_vars

----------------------------------------------------------------------------
(* C26: SubscriptionDenied *)

\* C26: handling SubscriptionDenied(topic, reason) removes the topic from pending and
\* nothing else from it, sets the wake to 30 seconds from now whatever was scheduled,
\* reports the denial with its reason if there is one, and changes nothing else:
\* subscribed (an entry for the topic included), the history, the announcements, the
\* flag and the requests out stay as they were, and no subscribe request is sent.
C26_DeniedRemovesAndRearms ==
    [][HandlesDenied =>
        LET ev == Head(queue)
        IN  /\ DOMAIN pending' = DOMAIN pending \ {ev.yt_channel}
            /\ \A k \in DOMAIN pending' : pending'[k] = pending[k]
            /\ ~timer'.done
            /\ timer'.deadline = now + TimeoutSecs
            /\ \E l \in logged' : /\ l.what = "denied"
                                  /\ l.yt_channel = ev.yt_channel
                                  /\ l.detail = ev.reason
                                  /\ l.notice = config.log_channel
            /\ subscribed' = subscribed
            /\ history' = history
            /\ announced' = announced
            /\ subscribing' = subscribing
            /\ pc' = "select"
            /\ inflight' = inflight
            /\ attempt' = attempt
            /\ config' = config]_vars

\* A denial has just been handled for a channel that is subscribed: the channel is
\* not pending, its subscribed entry is still there, and the wake lies 30 seconds
\* ahead.
C26_Witness ==
    /\ pc = "select"
    /\ \E l \in logged : /\ l.what = "denied"
                         /\ l.yt_channel \in DOMAIN subscribed
                         /\ l.yt_channel \notin DOMAIN pending
    /\ timer = Sleep(now + TimeoutSecs)
    /\ now > 0

----------------------------------------------------------------------------
(* C27: a Publication while the module is disabled *)

\* C27: a Publication handled while the module is disabled is dropped: no message is
\* spawned and its video id is not inserted in the history, nor is anything else of
\* the loop changed; and a Publication handled while the module is enabled, for a
\* subscribed channel and a video id the history does not hold, is announced, however
\* many Publications of that id were dropped before.
C27_DisabledPublicationDropped ==
    [][HandlesPublication =>
        LET p == Head(queue).publication
        IN  /\ ~config.enabled =>
                  /\ announced' = announced
                  /\ history' = history
                  /\ outbox' = outbox
                  /\ logged' = {}
                  /\ UNCHANGED <<pc, subscribed, pending, timer, subscribing, inflight>>
            /\ IsAnnounced(p) =>
                  /\ Len(announced') = Len(announced) + 1
                  /\ announced'[Len(announced')].yt_id = p.yt_id
                  /\ BufferContains(history', p.yt_id)]_vars

\* A Publication was dropped while the module was disabled, and the one Publication
\* that has reached the duplicate test, with the module enabled, has been announced:
\* it has the video id of the one that was dropped.
C27_Witness ==
    /\ config.enabled
    /\ Len(announced) = 1
    /\ dropped = {announced[1].yt_id}
    /\ \A i \in PubIds : seen[i] = (IF i = announced[1].yt_id THEN 1 ELSE 0)
    /\ history.inner = <<announced[1].yt_id>>

----------------------------------------------------------------------------
(* C28: the entries of a channel the configuration no longer has *)

\* C28 as stated: a configuration update leaves pending and subscribed as they are;
\* the entry of a channel that is not a key of the subscriptions stays, unchanged,
\* until a tick's sweep finds it expired; and no request is sent for a channel that
\* is not a key, nor for one that has an unexpired entry.
C28_EntryStaysUntilSwept ==
    [][/\ config' # config => pending' = pending /\ subscribed' = subscribed
       /\ \A k \in YtChannels :
              ~ContainsKey(config.subscriptions, k) =>
                  /\ k \in DOMAIN pending =>
                        \/ k \in DOMAIN pending' /\ pending'[k] = pending[k]
                        \/ Tick /\ pending[k] <= now
                  /\ k \in DOMAIN subscribed =>
                        \/ k \in DOMAIN subscribed' /\ subscribed'[k] = subscribed[k]
                        \/ Tick /\ subscribed[k] <= now
       /\ \A k \in YtChannels :
              Attempts(k) =>
                  /\ ContainsKey(config.subscriptions, k)
                  /\ k \in DOMAIN pending => pending[k] <= now
                  /\ k \in DOMAIN subscribed => subscribed[k] <= now]_vars

\* C28 as amended: the same, except that an event for the channel that was queued
\* while the channel was still a key is handled as ever: SubscriptionDenied removes
\* its pending entry, and Subscribed removes its pending entry and writes its
\* subscribed entry anew.
C28_EntryStaysUntilSweptOrEvent ==
    [][/\ config' # config => pending' = pending /\ subscribed' = subscribed
       /\ \A k \in YtChannels :
              ~ContainsKey(config.subscriptions, k) =>
                  /\ k \in DOMAIN pending =>
                        \/ k \in DOMAIN pending' /\ pending'[k] = pending[k]
                        \/ Tick /\ pending[k] <= now
                        \/ /\ HandlesDenied \/ HandlesSubscribed
                           /\ Head(queue).yt_channel = k
                  /\ k \in DOMAIN subscribed =>
                        \/ k \in DOMAIN subscribed' /\ subscribed'[k] = subscribed[k]
                        \/ Tick /\ subscribed[k] <= now
                        \/ /\ HandlesSubscribed
                           /\ Head(queue).yt_channel = k
                           /\ k \in DOMAIN subscribed'
       /\ \A k \in YtChannels :
              Attempts(k) =>
                  /\ ContainsKey(config.subscriptions, k)
                  /\ k \in DOMAIN pending => pending[k] <= now
                  /\ k \in DOMAIN subscribed => subscribed[k] <= now]_vars

\* The module is enabled and its last tick made no attempt, while a channel that is
\* not a key of the subscriptions has a subscribed entry that has not expired.
C28_Witness ==
    /\ config.enabled
    /\ pc = "select"
    /\ tried = None
    /\ swept = {}
    /\ \E k \in DOMAIN subscribed :
          /\ ~ContainsKey(config.subscriptions, k)
          /\ subscribed[k] > now

----------------------------------------------------------------------------
(* C29: a validation that times out, and a denial *)

\* The step is a tick whose sweep finds the pending entry of k expired
TimesOut(k) ==
    /\ Tick
    /\ k \in DOMAIN pending
    /\ pending[k] <= now

\* C29 as stated: a pending entry whose deadline has passed is treated as a denial
\* is: the entry is dropped and the failure reported, the step sends no request (the
\* topic is a candidate for the next tick), and the wake is what SubscriptionDenied
\* sets, 30 seconds from now.
C29_TimeoutAsDenial ==
    [][\A k \in YtChannels :
          TimesOut(k) =>
              /\ k \notin DOMAIN pending'
              /\ \E l \in logged' : /\ l.what = "Validation timed out"
                                    /\ l.yt_channel = k
                                    /\ l.notice = config.log_channel
              /\ pc' = pc
              /\ inflight' = inflight
              /\ timer' = Sleep(now + TimeoutSecs)]_vars

\* C29 as amended: the entry is dropped and the failure reported, as for a denial,
\* but the timeout is found by a tick, and the tick goes on as any tick does: while
\* the module is enabled it sends the request for the first free key at once, which
\* is the topic itself when it is still a key and every key before it is pending or
\* subscribed, and with no free key it sets the wake to the earliest instant of the
\* maps; while the module is disabled it sends nothing and does not set the wake.
\* SubscriptionDenied sends nothing and sets the wake 30 seconds ahead.
C29_TimeoutRetriedBySameTick ==
    [][/\ \A k \in YtChannels :
              TimesOut(k) =>
                  /\ k \notin DOMAIN pending'
                  /\ \E l \in logged' : /\ l.what = "Validation timed out"
                                        /\ l.yt_channel = k
                                        /\ l.notice = config.log_channel
                  /\ Attempts(k) <=> /\ config.enabled
                                     /\ ContainsKey(config.subscriptions, k)
                                     /\ StillFirstFree(k)
                  /\ ~config.enabled =>
                        pc' = pc /\ timer'.deadline = timer.deadline
                  /\ config.enabled /\ pc' = "select" =>
                        timer' = First(pending', subscribed', now)
       /\ HandlesDenied => pc' = pc /\ timer' = Sleep(now + TimeoutSecs)]_vars

\* The request for a channel is out, sent by the tick that found the channel's
\* validation timed out and reported it.
C29_Witness ==
    /\ pc = "subscribe"
    /\ \E l \in logged : /\ l.what = "Validation timed out"
                         /\ l.yt_channel = Unwrap(attempt).yt_channel
    /\ Unwrap(attempt).now >= TimeoutSecs
    /\ Unwrap(attempt).yt_channel \notin DOMAIN pending

----------------------------------------------------------------------------
(* C30: the tasks the loop spawns *)

\* C30: the messages are sent by tasks the loop spawns and does not wait for: the
\* step that spawns an announcement or a denial notice ends at select!, ready for the
\* next event, with the task still to finish; the end of a task, whether its send
\* succeeded or failed, changes nothing of pending, subscribed, the wake, the history
\* or the position of the loop; and a Publication whose video id is in the history is
\* not announced again, its earlier announcement having failed or not.
C30_DeliveryLeavesLoopAlone ==
    [][/\ (\E task \in BagToSet(outbox) : outbox' = outbox (-) SetToBag({task})) =>
              UNCHANGED <<pending, subscribed, timer, history, pc, subscribing, attempt,
                          inflight, queue, announced, config>>
       /\ HandlesPublication \/ HandlesDenied =>
              /\ pc' = "select"
              /\ \A task \in BagToSet(outbox) :
                     CopiesIn(task, outbox') >= CopiesIn(task, outbox)
       /\ HandlesPublication /\ IsAnnounced(Head(queue).publication) =>
              \E task \in BagToSet(outbox') :
                  /\ task.kind = "announce"
                  /\ task.subject = Head(queue).publication.yt_id
                  /\ CopiesIn(task, outbox') = CopiesIn(task, outbox) + 1
       /\ HandlesPublication /\ (\E i \in 1..Len(history.inner) :
                                      history.inner[i] = Head(queue).publication.yt_id) =>
              announced' = announced /\ outbox' = outbox /\ history' = history]_vars

\* The announcement of a video has failed, and a later Publication of the same video
\* has reached the duplicate test and has not been announced: the video is still in
\* the history and was announced once.
C30_Witness ==
    \E yt_id \in undelivered :
        /\ \E i \in 1..Len(history.inner) : history.inner[i] = yt_id
        /\ seen[yt_id] = 2
        /\ Cardinality(AnnouncementsOf(yt_id)) = 1
        /\ outbox = EmptyBag

----------------------------------------------------------------------------
(* C31: the choice of the candidate is not fair *)

\* C31 as stated: a topic whose subscribe call has failed keeps every topic after it
\* in iteration order from being attempted: no request is sent for a channel while a
\* key before it is free, or is pending only because a request the hub answered with
\* an error status was recorded.
C31_FailingTopicStarvesLater ==
    [][\A j \in YtChannels :
          Attempts(j) =>
              \A k \in KeysBefore(config.subscriptions, j) :
                  \/ k \in DOMAIN subscribed'
                  \/ k \in DOMAIN pending' /\ k \notin rejected']_vars

\* C31, what the loop does: a request that got no answer leaves its channel free,
\* and no request is sent for a channel while a key before it is free; but a request
\* the hub answered with an error status makes its channel pending, and for the 30
\* seconds of that entry a tick takes the next free key.
C31_UnansweredTopicStarvesLater ==
    [][/\ \A j \in YtChannels :
              Attempts(j) =>
                  KeysBefore(config.subscriptions, j)
                      \subseteq DOMAIN pending' \cup DOMAIN subscribed'
       /\ pc = "subscribe" /\ pc' = "select" =>
              LET k == Unwrap(attempt).yt_channel
              IN  IF hub' = Some("no_response")
                  THEN k \notin DOMAIN pending' \cup DOMAIN subscribed'
                  ELSE /\ k \in DOMAIN pending'
                       /\ k \in rejected' <=> hub' = Some("error_status")]_vars

----------------------------------------------------------------------------
(* C32: a configuration update *)

\* C32 as stated: a call of config for this module with a value that deserializes
\* replaces the whole configuration and, when the new configuration is enabled,
\* queues one UpdateSubscriptions; a new configuration that is disabled queues
\* nothing; a call for another module, or with a value that does not deserialize,
\* leaves the configuration in force and queues nothing.  The state of the loop is
\* not touched.
C32_EnabledUpdateQueuesTick ==
    [][IsSome(update') =>
        LET call == Unwrap(update')
        IN  /\ UNCHANGED <<pending, subscribed, timer, history, pc, subscribing>>
            /\ IF call.name # "youtube" \/ ~IsSome(call.value)
               THEN config' = config /\ queue' = queue
               ELSE /\ config' = Unwrap(call.value)
                    /\ queue' = IF config'.enabled
                                THEN Append(queue, EvUpdateSubscriptions)
                                ELSE queue]_vars

\* C32 as amended: the same, except that the UpdateSubscriptions of an enabled
\* configuration is queued with try_send and its refusal is discarded: nothing is
\* queued when the loop has ended and dropped its Receiver, or when Youtube's own
\* Sender is still parked by an event it queued onto a full channel.
C32_EnabledUpdateQueuesTickIfAccepted ==
    [][IsSome(update') =>
        LET call == Unwrap(update')
        IN  /\ UNCHANGED <<pending, subscribed, timer, history, pc, subscribing>>
            /\ IF call.name # "youtube" \/ ~IsSome(call.value)
               THEN config' = config /\ queue' = queue
               ELSE /\ config' = Unwrap(call.value)
                    /\ queue' = IF /\ config'.enabled
                                   /\ open
                                   /\ \A i \in 1..Len(parked) : parked[i] # "own"
                                THEN Append(queue, EvUpdateSubscriptions)
                                ELSE queue]_vars

\* A call has just set an enabled configuration while Youtube's own Sender was
\* parked by the UpdateSubscriptions that stands ninth in the queue: the call has
\* replaced the configuration and queued nothing.
C32_Witness ==
    /\ IsSome(update)
    /\ IsSome(Unwrap(update).value)
    /\ config = Unwrap(Unwrap(update).value)
    /\ config.enabled
    /\ Len(queue) = ChannelBuffer + 1
    /\ queue[ChannelBuffer + 1] = EvUpdateSubscriptions
    /\ nreq = ChannelBuffer + 2
    /\ \E i \in 1..Len(parked) : parked[i] = "own"

----------------------------------------------------------------------------
(* C33: the configuration lock and the loop's suspension points *)

----------------------------------------------------------------------------
(* C34: the pace of the subscribe requests *)

\* C34: when no UpdateSubscriptions event of a configuration update is taken in
\* between, two consecutive subscribe requests to the hub are issued at least 30
\* seconds apart, whatever Publication, Subscribed and Denied events arrive: a tick
\* that the wake timer starts sends a request only when no request was sent in the
\* 30 seconds before it, unless an UpdateSubscriptions event was taken since.
C34_RequestsThirtySecondsApart ==
    [][(TakesWake /\ pc' = "subscribe") =>
          /\ called = None
          /\ called' = Some(now)]_vars

\* The second request of a run, sent by the tick the wake timer started 30 seconds
\* after the first, with a confirmation of the first taken in between.
C34_Witness ==
    /\ pc = "subscribe"
    /\ called = Some(now)
    /\ now = TimeoutSecs
    /\ timer.done
    /\ DOMAIN subscribed # {}
    /\ Unwrap(attempt).yt_channel \notin DOMAIN subscribed

----------------------------------------------------------------------------
(* C35: the wake after an attempt and the deadline of its pending entry *)

\* C35 as stated: the wake set when a subscribe request returns is never earlier
\* than the deadline of the pending entry the request created, and at a tick the
\* wake timer starts every entry that is still in pending has expired: the tick
\* sweeps it, and its channel is a candidate of that tick, desired and in neither
\* map.
C35_WakeSweepsEveryPending ==
    /\ [][pc = "subscribe" /\ pc' = "select" =>
             \A k \in DOMAIN pending' \ DOMAIN pending : pending'[k] <= timer'.deadline]_vars
    /\ [][TakesWake =>
             \A k \in DOMAIN pending :
                 /\ k \notin DOMAIN pending'
                 /\ k \notin DOMAIN subscribed'
                 /\ KnownChannel(config, k)]_vars

\* C35 as amended: the wake set when a subscribe request returns is never earlier
\* than the deadline of the pending entry the request created.  At the timer-started
\* tick that comes next after the tick of the attempt, with no other tick in
\* between, the entry, if still in pending, has expired and is swept, and its
\* channel is in neither map; the tick counts it as a candidate, and sends a
\* request, only if the channel is still desired and the module enabled.
C35_NextWakeSweepsAttempted ==
    /\ [][pc = "subscribe" /\ pc' = "select" =>
             \A k \in DOMAIN pending' \ DOMAIN pending : pending'[k] <= timer'.deadline]_vars
    /\ [][(TakesWake /\ IsSome(tried)) =>
             LET k == Unwrap(tried)
             IN  k \in DOMAIN pending =>
                     /\ k \notin DOMAIN pending'
                     /\ k \notin DOMAIN subscribed'
                     /\ (KnownChannel(config, k) /\ config.enabled) => pc' = "subscribe"]_vars

\* The tick the wake timer started 30 seconds after an attempt has swept the
\* unconfirmed entry of that attempt and sent the request for the channel again.
C35_Witness ==
    /\ pc = "subscribe"
    /\ timer.done
    /\ IsSome(tried)
    /\ Unwrap(tried) \notin DOMAIN pending
    /\ Unwrap(tried) \notin DOMAIN subscribed
    /\ Unwrap(attempt).now >= TimeoutSecs
    /\ logged = {Line("warn", "Validation timed out", Unwrap(tried), None, Notice),
                 Line("debug", "Subscribing", Unwrap(tried), None, None)}

----------------------------------------------------------------------------
(* C36: confirmations and denials while the module is disabled *)

\* C36 as stated: while the module is disabled, a verification GET for a channel of
\* the subscriptions is answered 200 with the challenge and queues its Subscribed
\* event; the loop applies a Subscribed event by putting the channel into
\* subscribed, whether or not it was in pending, and a SubscriptionDenied event by
\* removing the channel from pending.
C36_AppliedWhileDisabled ==
    /\ [][(/\ AnswersGet
           /\ ~config.enabled
           /\ ~MalformedQuery(Unwrap(http').request)
           /\ Unwrap(http').request.mode = Some("subscribe")
           /\ KnownChannel(config, ChannelOf(Unwrap(http').request)))
          => /\ Unwrap(http').status = 200
             /\ Unwrap(http').body = Unwrap(Unwrap(http').request.challenge)
             /\ Len(queue') = Len(queue) + 1
             /\ queue'[Len(queue')].type = "Subscribed"
             /\ queue'[Len(queue')].yt_channel = ChannelOf(Unwrap(http').request)]_vars
    /\ [][(HandlesSubscribed /\ ~config.enabled) =>
             /\ Head(queue).yt_channel \in DOMAIN subscribed'
             /\ Head(queue).yt_channel \notin DOMAIN pending']_vars
    /\ [][(HandlesDenied /\ ~config.enabled) =>
             /\ Head(queue).yt_channel \notin DOMAIN pending'
             /\ subscribed' = subscribed]_vars

\* What holds: the same, for a loop that is still running and a lease whose expiry
\* does not overflow the Instant.
C36_AppliedWhileDisabledBelowOverflow ==
    /\ [][(/\ AnswersGet
           /\ ~config.enabled
           /\ open
           /\ ~MalformedQuery(Unwrap(http').request)
           /\ Unwrap(http').request.mode = Some("subscribe")
           /\ KnownChannel(config, ChannelOf(Unwrap(http').request)))
          => /\ Unwrap(http').status = 200
             /\ Unwrap(http').body = Unwrap(Unwrap(http').request.challenge)
             /\ Len(queue') = Len(queue) + 1
             /\ queue'[Len(queue')].type = "Subscribed"
             /\ queue'[Len(queue')].yt_channel = ChannelOf(Unwrap(http').request)]_vars
    /\ [][(HandlesSubscribed /\ ~config.enabled /\ ~Head(queue).lease_seconds.huge) =>
             /\ Head(queue).yt_channel \in DOMAIN subscribed'
             /\ Head(queue).yt_channel \notin DOMAIN pending']_vars
    /\ [][(HandlesDenied /\ ~config.enabled) =>
             /\ Head(queue).yt_channel \notin DOMAIN pending'
             /\ subscribed' = subscribed]_vars

----------------------------------------------------------------------------
(* C37: the history of announced videos *)

\* C37: in every reachable state the history holds at most 10 video ids, no id
\* twice, and exactly the ids of the latest announcements handed to tokio::spawn,
\* in the order of their announcement: an id enters the history in the step that
\* dispatches its announcement, and in no other.
C37_HistoryIsLatestAnnounced ==
    LET n == Len(announced)
        first == IF n > HistoryCapacity THEN n - HistoryCapacity + 1 ELSE 1
    IN  /\ history.capacity = HistoryCapacity
        /\ Len(history.inner) <= HistoryCapacity
        /\ \A i, j \in 1..Len(history.inner) : history.inner[i] = history.inner[j] => i = j
        /\ Len(history.inner) = n - first + 1
        /\ \A i \in 1..Len(history.inner) : history.inner[i] = announced[first + i - 1].yt_id

\* Eleven announcements have been dispatched: the history holds the ids of the last
\* ten and has evicted the first.
C37_Witness ==
    /\ Len(announced) = HistoryCapacity + 1
    /\ Len(history.inner) = HistoryCapacity
    /\ ~BufferContains(history, announced[1].yt_id)
    /\ history.inner[HistoryCapacity] = announced[HistoryCapacity + 1].yt_id

----------------------------------------------------------------------------
(* C38: a Publication and the subscription state *)

\* C38: handling a Publication event changes neither pending nor subscribed nor
\* the wake timer, nor the flag and the position of the loop that decide the next
\* wake: a timer that was due before the event is due after it, and an armed timer
\* keeps its instant.
C38_PublicationKeepsSchedule ==
    [][HandlesPublication =>
          /\ UNCHANGED <<pending, subscribed, timer, subscribing, pc, now>>
          /\ WakeDue => (~timer'.done /\ timer'.deadline <= now')]_vars

\* An announcement has been dispatched while an entry awaits validation and the wake
\* timer is armed and due.
C38_Witness ==
    /\ Len(announced) >= 1
    /\ outbox # EmptyBag
    /\ DOMAIN pending # {}
    /\ WakeDue
    /\ pc = "select"
    /\ queue = <<>>

----------------------------------------------------------------------------
(* C40: a wake for outstanding work *)

\* C40 as stated: in every reachable state where the module is enabled and a
\* channel of the subscriptions is in neither map, or one of the maps is not
\* empty, the loop is not idle for good: it is in the middle of a tick, awaiting the
\* hub, or it is at its select with its wake timer armed or an event in the queue.
C40_WakeOrEventWhileWork ==
    LET work == \/ \E i \in 1..Len(config.subscriptions) :
                      /\ config.subscriptions[i].key \notin DOMAIN pending
                      /\ config.subscriptions[i].key \notin DOMAIN subscribed
                \/ DOMAIN pending # {}
                \/ DOMAIN subscribed # {}
    IN  (config.enabled /\ work) =>
            \/ pc = "subscribe"
            \/ pc = "select" /\ (~timer.done \/ queue # <<>>)

\* What holds: the same while the loop runs, that is, as long as no Subscribed event
\* has made it panic.
C40_WakeOrEventWhileLoopRuns ==
    LET work == \/ \E i \in 1..Len(config.subscriptions) :
                      /\ config.subscriptions[i].key \notin DOMAIN pending
                      /\ config.subscriptions[i].key \notin DOMAIN subscribed
                \/ DOMAIN pending # {}
                \/ DOMAIN subscribed # {}
    IN  (config.enabled /\ work /\ pc # "panicked") =>
            \/ pc = "subscribe"
            \/ pc = "select" /\ (~timer.done \/ queue # <<>>)

----------------------------------------------------------------------------
(* C39: every desired channel gets subscribed *)

\* C39 as stated: while the module is enabled with a fixed configuration, every
\* subscribe request succeeds, the hub verifies each attempt within 30 seconds with
\* a lease above 600 seconds, no denial comes and no event is dropped, every channel
\* of the subscriptions is in subscribed in the end, and a channel whose entry a
\* tick has swept as expired is in subscribed again in the end.
C39_EventuallySubscribed ==
    \A k \in YtChannels :
        /\ (config.enabled /\ KnownChannel(config, k)) ~> (k \in DOMAIN subscribed)
        /\ (/\ config.enabled
            /\ KnownChannel(config, k)
            /\ k \in swept
            /\ now + TimeoutSecs <= MaxTime) ~> (k \in DOMAIN subscribed)

\* What holds: under the same conditions every channel of the subscriptions is in
\* subscribed in the end, unless a lease has made the loop panic or an entry has
\* expired before every channel had its turn.
C39_EventuallySubscribedUnlessPanicOrExpiry ==
    \A k \in YtChannels :
        (config.enabled /\ KnownChannel(config, k)) ~>
            (k \in DOMAIN subscribed \/ pc = "panicked" \/ swept # {})

====
